---------------------------- MODULE Spec2Model ----------------------------
(***************************************************************************)
(* Lucas-Kanade optical flow (optical-flow-fpga, python/): the windowed    *)
(* least-squares solver, the Sobel gradient estimator, the Gaussian        *)
(* pyramid builder, the warper, the flow upsampler and the coarse-to-fine  *)
(* refinement loop of lucas_kanade_pyramidal, and the accuracy metrics of  *)
(* flow_metrics.py; the reference script's own solver; and, around them,   *)
(* the readers of flow files (scripts/visualize_flow.py), the hex frame    *)
(* files (generate_test_frames.py, scripts/convert_frames.py) and the      *)
(* verifier's classification, comparison and baseline file.                *)
(*                                                                         *)
(* Numbers.  The code computes in float32.  The model computes exactly:    *)
(*   - an array of samples is a record [h, w, den, a]: a[y][x] is an       *)
(*     integer and the sample it stands for is a[y][x]/den (den = 1 for    *)
(*     an 8-bit frame widened to float, den = 16 for a Sobel gradient of   *)
(*     the average of two such frames);                                    *)
(*   - a flow value is a fraction [n, d] in lowest terms with d > 0.       *)
(* For the small dyadic samples used here every float32 sum and product    *)
(* of the solver is exact, so the determinant test is the code's; only     *)
(* the final quotient is exact where float32 rounds.  The metrics, whose   *)
(* results turn on that rounding, are computed in float32 itself: a record *)
(* [s, m, e] with a 24-bit mantissa, rounded to nearest even.              *)
(***************************************************************************)
EXTENDS Integers, Sequences, FiniteSets, TLC

(***************************************************************************)
(* Bounds of the model.                                                    *)
(***************************************************************************)
MaxH == 3
MaxW == 4
MaxGrad == 2
MaxPix == 2
MaxWindow == 3
MaxDim == 6
MaxLevels == 3
MaxFlow == 2
MaxCoarse == 3
MaxPyrLevels == 2
MaxIterations == 2
MaxPixels == 2

(***************************************************************************)
(* Program constants.                                                      *)
(***************************************************************************)
\* lucas_kanade_core.py:121  abs(det) > 1e-4, as the fraction 1/DetThresholdDen
DetThresholdDen == 10000
\* lucas_kanade_core.py:28-29  the Sobel kernels are divided by 8.0
SobelDiv == 8
\* lucas_kanade_core.py:32  frame_avg = (frame_prev + frame_curr) / 2.0
AvgDiv == 2

VARIABLES
    pc,            \* position of the call being run
    raised,        \* the exception that ended the call, "none" when none
    frame_prev, frame_curr,   \* the frame pair handed to the estimator
    Ix, Iy, It,    \* the gradient triple handed to the solver
    window_size,
    u, v,          \* the flow the solver returned
    image,         \* the frame handed to the pyramid builder
    num_levels,
    scale_factor,  \* <<n, d>> for the float n/d
    level,         \* the loop variable of the level loop
    current,       \* build_gaussian_pyramid's current
    pyramid,       \* build_gaussian_pyramid's list
    flow_u, flow_v,           \* the flow being refined, warped by or upsampled
    target_shape,             \* <<height, width>> handed to upsample_flow
    flow_u_up, flow_v_up,     \* what upsample_flow returned
    img_warped,               \* what warp_image returned
    num_iterations,
    pyr_prev, pyr_curr,       \* the two pyramids of lucas_kanade_pyramidal
    iteration,                \* the loop variable of the iteration loop
    du, dv,                   \* the residual of the last iteration
    log,                      \* history: the calls of the run, in order
    files,                    \* the files written so far
    u_pred, v_pred,           \* the flow handed to the metrics, pixel by pixel
    u_true, v_true,           \* the constant ground-truth flow
    mask,                     \* the boolean mask, pixel by pixel
    metrics,                  \* what compute_all_metrics returned
    flow_file,                \* the lines of a flow-field text file
    consumer,                 \* the function of visualize_flow.py called
    metadata,                 \* what parse_flow_field returned as metadata
    frame,                    \* the 8-bit frame handed to save_as_mem_file
    mem_file,                 \* the lines of the .mem file
    read_shape,               \* <<width, height>> handed to mem_to_image
    img_array,                 \* the image mem_to_image returned
    mae_u, mae_v,             \* the two errors handed to classify_result
    pattern_type,             \* the pattern name handed to classify_result
    config,                   \* the verification configuration
    status,                    \* what classify_result returned
    current_metrics,          \* the metrics of this run handed to compare_metrics
    baseline_metrics,         \* the metrics of the baseline
    threshold_percent,
    comparison,                \* what compare_metrics returned
    u_ref, v_ref,             \* the flow lucas_kanade_window of the reference script returned
    args,                     \* the verifier's command line
    all_results,              \* the results of the run
    baseline_file,            \* python/verification_baseline.json
    exit_status               \* the status the process ends with

solverVars == <<frame_prev, frame_curr, Ix, Iy, It, window_size, u, v>>
builderVars == <<image, num_levels, scale_factor, level, current, pyramid>>
flowVars == <<flow_u, flow_v, target_shape, flow_u_up, flow_v_up, img_warped>>
pyrVars == <<num_iterations, pyr_prev, pyr_curr, iteration, du, dv, log, files>>
metricVars == <<u_pred, v_pred, u_true, v_true, mask, metrics>>
fileVars == <<flow_file, consumer, metadata>>
memVars == <<frame, mem_file, read_shape, img_array>>
classifyVars == <<mae_u, mae_v, pattern_type, config, status>>
compareVars == <<current_metrics, baseline_metrics, threshold_percent, comparison>>
refVars == <<u_ref, v_ref>>
baselineVars == <<args, all_results, baseline_file, exit_status>>
toolVars == <<fileVars, memVars, classifyVars, compareVars, refVars, baselineVars>>
coreVars == <<solverVars, builderVars, flowVars, pyrVars, metricVars>>
vars == <<pc, raised, coreVars, toolVars>>

None == [h |-> 0, w |-> 0, den |-> 1, a |-> <<>>]

\* A float32 is a record [s, m, e] standing for s * m * 2^e with s in {1, -1}
\* and 2^23 <= m < 2^24; zero has m = 0, nan has s = 0.
FZero == [s |-> 1, m |-> 0, e |-> 0]
NaN == [s |-> 0, m |-> 0, e |-> 0]
NoMetrics == [mae_u |-> NaN, mae_v |-> NaN, rmse |-> NaN, epe |-> NaN,
              aae |-> [shortcut |-> FALSE, dot_product |-> <<>>]]

MetricsIdle ==
    /\ u_pred = <<>>
    /\ v_pred = <<>>
    /\ u_true = FZero
    /\ v_true = FZero
    /\ mask = <<>>
    /\ metrics = NoMetrics

\* no file of visualize_flow.py is being read
NoMetadata == <<>>
FileIdle ==
    /\ flow_file = <<>>
    /\ consumer = "none"
    /\ metadata = NoMetadata

\* no frame is being written to or read from a .mem file
MemIdle ==
    /\ frame = None
    /\ mem_file = <<>>
    /\ read_shape = <<0, 0>>
    /\ img_array = None

\* classify_result is not being called
NoConfig == [pattern_categories |-> <<>>]
ClassifyIdle ==
    /\ mae_u = 0
    /\ mae_v = 0
    /\ pattern_type = ""
    /\ config = NoConfig
    /\ status = ""

\* compare_metrics is not being called
NoComparison == [passed |-> TRUE, differences |-> {}, flags |-> <<>>]
CompareIdle ==
    /\ current_metrics = <<>>
    /\ baseline_metrics = <<>>
    /\ threshold_percent = 0
    /\ comparison = NoComparison

\* the reference script has not run
RefIdle ==
    /\ u_ref = None
    /\ v_ref = None

\* no run of the verifier's main: no results, no baseline file
NoBaselineFile == [exists |-> FALSE, data |-> <<>>]
BaselineIdle ==
    /\ args = [update_baseline |-> FALSE, compare_baseline |-> FALSE,
               regression_threshold |-> 0]
    /\ all_results = <<>>
    /\ baseline_file = NoBaselineFile
    /\ exit_status = 0

ToolsIdle == FileIdle /\ MemIdle /\ ClassifyIdle /\ CompareIdle /\ RefIdle /\ BaselineIdle

(***************************************************************************)
(* Exact arithmetic.                                                       *)
(***************************************************************************)
Abs(i) == IF i < 0 THEN -i ELSE i

RECURSIVE Gcd(_, _)
Gcd(a, b) == IF b = 0 THEN a ELSE Gcd(b, a % b)

\* the fraction num/dd in lowest terms, denominator positive (dd # 0)
Frac(num, dd) ==
    LET g == Gcd(Abs(num), Abs(dd))
        s == IF dd < 0 THEN -1 ELSE 1
    IN  [n |-> s * (num \div g), d |-> s * (dd \div g)]

Zero == [n |-> 0, d |-> 1]

RECURSIVE SumRange(_, _, _)
SumRange(f, lo, hi) == IF lo > hi THEN 0 ELSE f[lo] + SumRange(f, lo + 1, hi)

RECURSIVE Pow(_, _)
Pow(b, e) == IF e = 0 THEN 1 ELSE b * Pow(b, e - 1)

\* The samples a[y][x] of an h x w array, computed: an array is computed when
\* it is assigned, not each time one of its samples is read.
Samples(a, h, w) == IF a = a THEN a ELSE a

\* np.zeros((height, width)) as a flow field
np_zeros(height, width) ==
    [h |-> height, w |-> width,
     a |-> Samples([y \in 0 .. height - 1 |-> [x \in 0 .. width - 1 |-> Zero]],
                   height, width)]

(***************************************************************************)
(* lucas_kanade_core.py: lucas_kanade_from_gradients                       *)
(***************************************************************************)
\* The range <<first, last>> a[start:stop] selects from an axis of length n (slicing:
\* a negative bound counts from the end, and both are clipped to the axis).
PySlice(start, stop, n) ==
    LET lo == IF start < 0 THEN (IF start + n < 0 THEN 0 ELSE start + n)
              ELSE (IF start > n THEN n ELSE start)
        hi == IF stop < 0 THEN (IF stop + n < 0 THEN 0 ELSE stop + n)
              ELSE (IF stop > n THEN n ELSE stop)
    IN  <<lo, hi - 1>>

\* np.sum(P[ys, xs] * Q[ys, xs]) for the index ranges ys = <<first, last>>, xs
np_sum_prod(P, Q, ys, xs) ==
    SumRange([yy \in ys[1] .. ys[2] |->
                SumRange([xx \in xs[1] .. xs[2] |-> P.a[yy][xx] * Q.a[yy][xx]],
                         xs[1], xs[2])],
             ys[1], ys[2])

\* abs(det) > 1e-4, det in units of 1/den^4
SufficientTextureStrict(det, den) ==
    Abs(det) >= (Pow(den, 4) + DetThresholdDen - 1) \div DetThresholdDen
SufficientTexture(det, den) == Abs(det) > Pow(den, 4) \div DetThresholdDen

\* The body of the pixel loop at (y, x): the pair <<u[y,x], v[y,x]>>.
SolveNegatedRhs(gIx, gIy, gIt, half_win, y, x) ==
    LET wy == PySlice(y - half_win, y + half_win + 1, gIx.h)
        wx == PySlice(x - half_win, x + half_win + 1, gIx.w)
        sum_Ix2  == np_sum_prod(gIx, gIx, wy, wx)
        sum_Iy2  == np_sum_prod(gIy, gIy, wy, wx)
        sum_IxIy == np_sum_prod(gIx, gIy, wy, wx)
        sum_IxIt == np_sum_prod(gIx, gIt, wy, wx)
        sum_IyIt == np_sum_prod(gIy, gIt, wy, wx)
        b0 == sum_IxIt
        b1 == sum_IyIt
        det == sum_Ix2 * sum_Iy2 - sum_IxIy * sum_IxIy
    IN  IF SufficientTexture(det, gIx.den)
        THEN <<Frac(sum_Iy2 * b0 - sum_IxIy * b1, det),
               Frac(sum_Ix2 * b1 - sum_IxIy * b0, det)>>
        ELSE <<Zero, Zero>>

SolvePixel(gIx, gIy, gIt, half_win, y, x) ==
    LET wy == PySlice(y - half_win, y + half_win + 1, gIx.h)
        wx == PySlice(x - half_win, x + half_win + 1, gIx.w)
        sum_Ix2  == np_sum_prod(gIx, gIx, wy, wx)
        sum_Iy2  == np_sum_prod(gIy, gIy, wy, wx)
        sum_IxIy == np_sum_prod(gIx, gIy, wy, wx)
        sum_IxIt == np_sum_prod(gIx, gIt, wy, wx)
        sum_IyIt == np_sum_prod(gIy, gIt, wy, wx)
        \* A = [[sum_Ix2, sum_IxIy], [sum_IxIy, sum_Iy2]], b = [-sum_IxIt, -sum_IyIt]
        b0 == -sum_IxIt
        b1 == -sum_IyIt
        det == sum_Ix2 * sum_Iy2 - sum_IxIy * sum_IxIy
    IN  IF SufficientTexture(det, gIx.den)
        THEN <<Frac(sum_Iy2 * b0 - sum_IxIy * b1, det),
               Frac(sum_Ix2 * b1 - sum_IxIy * b0, det)>>
        ELSE <<Zero, Zero>>

\* range(half_win, n - half_win)
LoopRangeNoMargin(half_win, n) == 0 .. n - 1
LoopRange(half_win, n) == half_win .. n - half_win - 1

\* the pair <<u, v>> of flow fields
lucas_kanade_from_gradients(gIx, gIy, gIt, win) ==
    LET height == gIx.h
        width == gIx.w
        half_win == win \div 2
        ys == LoopRange(half_win, height)
        xs == LoopRange(half_win, width)
        px == [y \in ys |-> [x \in xs |-> SolvePixel(gIx, gIy, gIt, half_win, y, x)]]
        field(k) ==
            [h |-> height, w |-> width,
             a |-> Samples([y \in 0 .. height - 1 |-> [x \in 0 .. width - 1 |->
                             IF y \in ys /\ x \in xs THEN px[y][x][k] ELSE Zero]],
                           height, width)]
    IN  <<field(1), field(2)>>

(***************************************************************************)
(* lucas_kanade_core.py: compute_gradients, lucas_kanade_single_scale      *)
(***************************************************************************)
\* the kernels before the division by 8, indexed [row][column] from 0
sobel_x == <<<<-1, 0, 1>>, <<-2, 0, 2>>, <<-1, 0, 1>>>>
sobel_y == <<<<-1, -2, -1>>, <<0, 0, 0>>, <<1, 2, 1>>>>

\* boundary="symm": index i of an axis of length n extended by reflection about
\* the edge, the edge sample repeated (-1 -> 0, n -> n-1)
Symm(i, n) == IF i < 0 THEN -i - 1 ELSE IF i >= n THEN 2 * n - 1 - i ELSE i

\* signal.convolve2d(img, kernel, mode="same", boundary="symm") at (y, x) for a
\* 3x3 kernel: a true convolution, the kernel is flipped against the image:
\* the sum over i, j in 0..2 of kernel[i][j] * img[y + 1 - i][x + 1 - j]
Tap(img, kernel, y, x, i, j) ==
    kernel[i + 1][j + 1] * img.a[Symm(y + 1 - i, img.h)][Symm(x + 1 - j, img.w)]

convolve2d_unflipped(img, kernel, y, x) ==
    kernel[1][1] * img.a[Symm(y - 1, img.h)][Symm(x - 1, img.w)]
      + kernel[1][2] * img.a[Symm(y - 1, img.h)][Symm(x, img.w)]
      + kernel[1][3] * img.a[Symm(y - 1, img.h)][Symm(x + 1, img.w)]
      + kernel[2][1] * img.a[Symm(y, img.h)][Symm(x - 1, img.w)]
      + kernel[2][2] * img.a[Symm(y, img.h)][Symm(x, img.w)]
      + kernel[2][3] * img.a[Symm(y, img.h)][Symm(x + 1, img.w)]
      + kernel[3][1] * img.a[Symm(y + 1, img.h)][Symm(x - 1, img.w)]
      + kernel[3][2] * img.a[Symm(y + 1, img.h)][Symm(x, img.w)]
      + kernel[3][3] * img.a[Symm(y + 1, img.h)][Symm(x + 1, img.w)]

convolve2d_at(img, kernel, y, x) ==
    Tap(img, kernel, y, x, 0, 0) + Tap(img, kernel, y, x, 0, 1) + Tap(img, kernel, y, x, 0, 2)
      + Tap(img, kernel, y, x, 1, 0) + Tap(img, kernel, y, x, 1, 1) + Tap(img, kernel, y, x, 1, 2)
      + Tap(img, kernel, y, x, 2, 0) + Tap(img, kernel, y, x, 2, 1) + Tap(img, kernel, y, x, 2, 2)

\* frame_prev + frame_curr, the average before its division by 2
frame_sum(prev, curr) ==
    [h |-> prev.h, w |-> prev.w, den |-> prev.den,
     a |-> Samples([y \in 0 .. prev.h - 1 |-> [x \in 0 .. prev.w - 1 |->
                     prev.a[y][x] + curr.a[y][x]]], prev.h, prev.w)]

\* It = frame_prev - frame_curr, in the unit of the spatial gradients
temporal_sum(prev, curr, y, x) == SobelDiv * AvgDiv * (prev.a[y][x] + curr.a[y][x])
temporal_gradient(prev, curr, y, x) == SobelDiv * AvgDiv * (prev.a[y][x] - curr.a[y][x])

\* the triple <<Ix, Iy, It>>, every sample in units of 1/(8*2) of an intensity step
compute_gradients(prev, curr) ==
    LET frame_avg == frame_sum(prev, curr)
        out(f(_, _)) ==
            [h |-> prev.h, w |-> prev.w, den |-> SobelDiv * AvgDiv * prev.den,
             a |-> Samples([y \in 0 .. prev.h - 1 |-> [x \in 0 .. prev.w - 1 |-> f(y, x)]],
                           prev.h, prev.w)]
    IN  << out(LAMBDA y, x : convolve2d_at(frame_avg, sobel_x, y, x)),
           out(LAMBDA y, x : convolve2d_at(frame_avg, sobel_y, y, x)),
           out(LAMBDA y, x : temporal_gradient(prev, curr, y, x)) >>

\* <<Ix, Iy, It, u, v>>: the gradients it computes and the flow it returns
lucas_kanade_single_scale(prev, curr, win) ==
    LET g == compute_gradients(prev, curr)
        r == lucas_kanade_from_gradients(g[1], g[2], g[3], win)
    IN  <<g[1], g[2], g[3], r[1], r[2]>>

(***************************************************************************)
(* Inputs of the solver: gradient triples on a MaxH x MaxW grid.  Ix is    *)
(* flat zero with one sample that stands out, Iy a flat background with    *)
(* one sample that stands out at or next to that of Ix, It a ramp along x. *)
(* The window sums then give determinants equal to 0, below, at and above  *)
(* the threshold.                                                          *)
(***************************************************************************)
WindowSizes == 1 .. MaxWindow
\* the unit of a gradient sample: 1/10 (decimal) or 1/16 (Sobel of a frame average)
GradDens == {10, 16}

Grid(h, w, den, f(_, _)) ==
    [h |-> h, w |-> w, den |-> den,
     a |-> [y \in 0 .. h - 1 |-> [x \in 0 .. w - 1 |-> f(y, x)]]]

Impulse(h, w, den, py, px, amp, bg) ==
    Grid(h, w, den, LAMBDA y, x : IF y = py /\ x = px THEN bg + amp ELSE bg)

Ramp(h, w, den, c0, c1) == Grid(h, w, den, LAMBDA y, x : c0 + c1 * x)

BuilderIdle ==
    /\ image = None
    /\ num_levels = 0
    /\ scale_factor = <<1, 2>>
    /\ level = 0
    /\ current = None
    /\ pyramid = <<>>

FlowIdle ==
    /\ flow_u = None
    /\ flow_v = None
    /\ target_shape = <<0, 0>>
    /\ flow_u_up = None
    /\ flow_v_up = None
    /\ img_warped = None

PyrIdle ==
    /\ num_iterations = 0
    /\ pyr_prev = <<>>
    /\ pyr_curr = <<>>
    /\ iteration = 0
    /\ du = None
    /\ dv = None
    /\ log = <<>>
    /\ files = {}

InitGradients ==
    /\ pc = "from_gradients"
    /\ BuilderIdle
    /\ FlowIdle
    /\ PyrIdle
    /\ MetricsIdle
    /\ ToolsIdle
    /\ raised = "none"
    /\ frame_prev = None
    /\ frame_curr = None
    /\ window_size \in WindowSizes
    /\ \E den \in GradDens, py \in 0 .. MaxH - 1, px \in 0 .. MaxW - 1,
          oy \in 0 .. 1, ox \in 0 .. 1 :
          /\ py + oy < MaxH
          /\ px + ox < MaxW
          /\ \E amp \in {1, MaxGrad} : Ix = Impulse(MaxH, MaxW, den, py, px, amp, 0)
          /\ \E amp \in {1, MaxGrad}, bg \in 0 .. 1 :
                Iy = Impulse(MaxH, MaxW, den, py + oy, px + ox, amp, bg)
          \* the caller may hand in a temporal gradient with more rows than Ix
          /\ \E c0 \in {-1, 1}, c1 \in 0 .. 1, extra \in 0 .. 1 :
                /\ extra = 1 => c0 = 1 /\ c1 = 1
                /\ It = Ramp(MaxH + extra, MaxW, den, c0, c1)
    /\ u = None
    /\ v = None

FromGradients ==
    /\ pc = "from_gradients"
    /\ LET r == lucas_kanade_from_gradients(Ix, Iy, It, window_size)
       IN  /\ u' = r[1]
           /\ v' = r[2]
    /\ pc' = "done"
    /\ UNCHANGED <<raised, frame_prev, frame_curr, Ix, Iy, It, window_size, builderVars, flowVars, pyrVars, metricVars, toolVars>>

NextGradients == FromGradients

SpecGradients == InitGradients /\ [][NextGradients]_vars

(***************************************************************************)
(* Inputs of the estimator: pairs of 8-bit frames widened to float.  A     *)
(* frame is a background (flat, a ramp along x, a ramp along y, or the     *)
(* product x*y) with one brighter pixel; the current frame has the same    *)
(* background and its bright pixel at the same place or one pixel away     *)
(* along an axis, with the same or the largest brightness.                 *)
(***************************************************************************)
Backgrounds == 0 .. 3

Background(bg, y, x) ==
    CASE bg = 0 -> 0
      [] bg = 1 -> x
      [] bg = 2 -> y
      [] OTHER -> x * y

Pattern(h, w, bg, py, px, amp) ==
    Grid(h, w, 1, LAMBDA y, x : Background(bg, y, x) + (IF y = py /\ x = px THEN amp ELSE 0))

\* the displacements of the bright pixel: none, or one pixel along an axis
Shifts == {<<0, 0>>, <<0, 1>>, <<1, 0>>, <<0, -1>>, <<-1, 0>>}

InitFrames(h, w) ==
    \E bg \in Backgrounds, py \in 0 .. h - 1, px \in 0 .. w - 1, d \in Shifts,
       amp \in 1 .. MaxPix :
        /\ py + d[1] \in 0 .. h - 1
        /\ px + d[2] \in 0 .. w - 1
        /\ frame_prev = Pattern(h, w, bg, py, px, amp)
        /\ \E amp2 \in {amp, MaxPix} :
              frame_curr = Pattern(h, w, bg, py + d[1], px + d[2], amp2)

\* A textured pattern moved as a whole: the checkerboard of
\* generate_moving_square at this scale, 0 and 1 in checks of MaxDim \div 2
\* pixels, continued over the whole plane.
Texture(y, x) ==
    IF (y \div (MaxDim \div 2) + x \div (MaxDim \div 2)) % 2 = 0 THEN 1 ELSE 0

\* the pattern displaced by d = <<dy, dx>>: the sample at (y, x) is the
\* pattern's sample at (y - dy, x - dx)
Translated(h, w, d) == Grid(h, w, 1, LAMBDA y, x : Texture(y - d[1], x - d[2]))

\* whole-pixel displacements <<dy, dx>> of the pattern
Translations == {<<0, 0>>, <<0, 1>>, <<1, 0>>, <<1, 1>>}

InitTranslated(h, w) ==
    \E d \in Translations :
        /\ frame_prev = Translated(h, w, <<0, 0>>)
        /\ frame_curr = Translated(h, w, d)

InitSingleScale ==
    /\ pc = "single_scale"
    /\ BuilderIdle
    /\ FlowIdle
    /\ PyrIdle
    /\ MetricsIdle
    /\ ToolsIdle
    /\ raised = "none"
    /\ window_size \in WindowSizes
    /\ InitFrames(MaxH, MaxW) \/ InitTranslated(MaxH + 2, MaxW + 1)
    /\ Ix = None
    /\ Iy = None
    /\ It = None
    /\ u = None
    /\ v = None

SingleScale ==
    /\ pc = "single_scale"
    /\ LET r == lucas_kanade_single_scale(frame_prev, frame_curr, window_size)
       IN  /\ Ix' = r[1]
           /\ Iy' = r[2]
           /\ It' = r[3]
           /\ u' = r[4]
           /\ v' = r[5]
    /\ pc' = "done"
    /\ UNCHANGED <<raised, frame_prev, frame_curr, window_size, builderVars, flowVars, pyrVars, metricVars, toolVars>>

NextSingleScale == SingleScale

SpecSingleScale == InitSingleScale /\ [][NextSingleScale]_vars

(***************************************************************************)
(* lucas_kanade_pyramidal.py: build_gaussian_pyramid                       *)
(*                                                                         *)
(* The weights of gaussian_filter are not rational, so the samples of a    *)
(* smoothed and resampled level are not tracked: such a frame has den = 0  *)
(* and carries its shape only.  The finest level is the input, sample for  *)
(* sample.                                                                 *)
(***************************************************************************)
\* int(dim * scale_factor): truncation, for scale_factor = sf[1]/sf[2] >= 0
scaled_dim_rounded(dim, sf) == (2 * dim * sf[1] + sf[2]) \div (2 * sf[2])
scaled_dim(dim, sf) == (dim * sf[1]) \div sf[2]

Untracked(h, w) ==
    [h |-> h, w |-> w, den |-> 0,
     a |-> [y \in 0 .. h - 1 |-> [x \in 0 .. w - 1 |-> 0]]]

\* gaussian_filter(current, sigma), then map_coordinates on the
\* new_height x new_width linspace grid
downsample(cur, sf) == Untracked(scaled_dim(cur.h, sf), scaled_dim(cur.w, sf))

\* pyramid.insert(0, current)
list_append(pyr, cur) == pyr \o <<cur>>
list_insert_front(pyr, cur) == <<cur>> \o pyr

\* one pass of "for level in range(num_levels)": <<current, pyramid>> after it
pyramid_loop_body_every_level(lvl, cur, pyr, sf) ==
    <<downsample(cur, sf), list_insert_front(pyr, downsample(cur, sf))>>
pyramid_loop_body(lvl, cur, pyr, sf) ==
    LET nxt == IF lvl > 0 THEN downsample(cur, sf) ELSE cur
    IN  <<nxt, list_insert_front(pyr, nxt)>>

RECURSIVE pyramid_loop(_, _, _, _, _)
pyramid_loop(lvl, n, cur, pyr, sf) ==
    IF lvl >= n THEN pyr
    ELSE LET r == pyramid_loop_body(lvl, cur, pyr, sf)
         IN  pyramid_loop(lvl + 1, n, r[1], r[2], sf)

\* the list the call returns (current = image.copy())
build_gaussian_pyramid(img, n, sf) == pyramid_loop(0, n, img, <<>>, sf)

(***************************************************************************)
(* build_gaussian_pyramid, pass by pass.                                   *)
(***************************************************************************)
Dims == 1 .. MaxDim
\* 0.5 is the default and the only value lucas_kanade_pyramidal uses; 1.0 lies
\* outside (0, 1) and passes through the same arithmetic
ScaleFactors == {<<1, 2>>, <<3, 4>>, <<1, 1>>}

InitPyramid ==
    /\ pc = "build_loop"
    /\ raised = "none"
    /\ frame_prev = None
    /\ frame_curr = None
    /\ Ix = None
    /\ Iy = None
    /\ It = None
    /\ window_size = 1
    /\ u = None
    /\ v = None
    /\ \E h \in Dims, w \in Dims, bg \in Backgrounds :
          image = Pattern(h, w, bg, 0, 0, 1)
    /\ num_levels \in 0 .. MaxLevels
    /\ scale_factor \in ScaleFactors
    /\ level = 0
    /\ current = image
    /\ pyramid = <<>>
    /\ FlowIdle
    /\ PyrIdle
    /\ MetricsIdle
    /\ ToolsIdle

BuildLevel ==
    /\ pc = "build_loop"
    /\ level < num_levels
    /\ LET r == pyramid_loop_body(level, current, pyramid, scale_factor)
       IN  /\ current' = r[1]
           /\ pyramid' = r[2]
    /\ level' = level + 1
    /\ UNCHANGED <<pc, raised, solverVars, image, num_levels, scale_factor, flowVars, pyrVars, metricVars, toolVars>>

BuildReturn ==
    /\ pc = "build_loop"
    /\ level >= num_levels
    /\ pc' = "done"
    /\ UNCHANGED <<raised, solverVars, builderVars, flowVars, pyrVars, metricVars, toolVars>>

NextPyramid == BuildLevel \/ BuildReturn

SpecPyramid == InitPyramid /\ [][NextPyramid]_vars

(***************************************************************************)
(* Arithmetic on fractions, and scipy.ndimage.map_coordinates with         *)
(* order=1, mode="constant", cval=0.0.                                     *)
(***************************************************************************)
RAdd(p, q) ==
    LET g == Gcd(p.d, q.d)
    IN  Frac(p.n * (q.d \div g) + q.n * (p.d \div g), (p.d \div g) * q.d)
RMul(p, q) == Frac(p.n * q.n, p.d * q.d)
RLess(p, q) == p.n * q.d < q.n * p.d
Whole(i) == [n |-> i, d |-> 1]
Floor(p) == p.n \div p.d

\* the sample of an array as a fraction: a frame's a[y][x]/den, a flow's a[y][x]
ValueAt(arr, y, x) ==
    IF "den" \in DOMAIN arr THEN Frac(arr.a[y][x], arr.den) ELSE arr.a[y][x]

\* the linear weights of the two neighbours of coordinate c: <<index, weight>>,
\* a neighbour of weight 0 is not read
LinearTaps(c) ==
    LET i0 == Floor(c)
        fr == Frac(c.n % c.d, c.d)
    IN  IF fr.n = 0 THEN {<<i0, Whole(1)>>}
        ELSE {<<i0, Frac(fr.d - fr.n, fr.d)>>, <<i0 + 1, fr>>}

RECURSIVE RSum(_, _)
RSum(f, S) ==
    IF S = {} THEN Zero
    ELSE LET e == CHOOSE e \in S : TRUE IN RAdd(f[e], RSum(f, S \ {e}))

RECURSIVE RSumRange(_, _, _)
RSumRange(f, lo, hi) == IF lo > hi THEN Zero ELSE RAdd(f[lo], RSumRange(f, lo + 1, hi))

\* one output sample of map_coordinates at the coordinates (yc, xc): a point
\* outside [0, h-1] x [0, w-1] gives cval
map_coordinate(arr, yc, xc) ==
    IF \/ yc.n < 0 \/ RLess(Whole(arr.h - 1), yc)
       \/ xc.n < 0 \/ RLess(Whole(arr.w - 1), xc)
    THEN Zero
    ELSE LET taps == LinearTaps(yc) \X LinearTaps(xc)
         IN  RSum([t \in taps |->
                     RMul(RMul(t[1][2], t[2][2]), ValueAt(arr, t[1][1], t[2][1]))],
                  taps)

(***************************************************************************)
(* lucas_kanade_pyramidal.py: warp_image                                   *)
(***************************************************************************)
\* x_warped = xx + flow_u, y_warped = yy + flow_v
warp_coordinate_unmoved(grid, flow) == Whole(grid)
warp_coordinate_backward(grid, flow) == RAdd(Whole(grid), [n |-> -flow.n, d |-> flow.d])
warp_coordinate(grid, flow) == RAdd(Whole(grid), flow)

\* numpy broadcasting of two axis lengths: the common length, or -1 when the
\* operands cannot be broadcast together (ValueError)
broadcast_dim(n, m) == IF n = m \/ m = 1 THEN n ELSE IF n = 1 THEN m ELSE -1

\* the shape <<height, width>> of a + b, or NoShape
NoShape == <<-1, -1>>
broadcast_shape(a, b) ==
    IF broadcast_dim(a.h, b.h) = -1 \/ broadcast_dim(a.w, b.w) = -1 THEN NoShape
    ELSE <<broadcast_dim(a.h, b.h), broadcast_dim(a.w, b.w)>>

\* the index read along an axis of length n when it is broadcast
broadcast_index(i, n) == IF n = 1 THEN 0 ELSE i

\* the caller has checked that image.shape and the flow's shape broadcast
\* (xx + flow_u raises ValueError otherwise); the output has the broadcast shape
warp_image(img, fu, fv) ==
    LET out == broadcast_shape(img, fu)
    IN  [h |-> out[1], w |-> out[2],
         a |-> Samples([y \in 0 .. out[1] - 1 |-> [x \in 0 .. out[2] - 1 |->
                  map_coordinate(img,
                     warp_coordinate(broadcast_index(y, img.h),
                        fv.a[broadcast_index(y, fv.h)][broadcast_index(x, fv.w)]),
                     warp_coordinate(broadcast_index(x, img.w),
                        fu.a[broadcast_index(y, fu.h)][broadcast_index(x, fu.w)]))]],
                   out[1], out[2])]

(***************************************************************************)
(* lucas_kanade_pyramidal.py: upsample_flow                                *)
(***************************************************************************)
\* np.linspace(0, stop, num)[i]
np_linspace_from_one(stop, num, i) ==
    IF num = 1 \/ i + 1 >= num THEN Whole(stop) ELSE Frac((i + 1) * stop, num - 1)
np_linspace(stop, num, i) == IF num = 1 THEN Zero ELSE Frac(i * stop, num - 1)

\* scale_y = target_height / coarse_height, scale_x = target_width / coarse_width
flow_scale_one(target, coarse) == Whole(1)
flow_scale(target, coarse) == Frac(target, coarse)

\* map_coordinates(flow, [yy, xx], order=1) * scale
upsample_component(flow, target, scale) ==
    [h |-> target[1], w |-> target[2],
     a |-> Samples([y \in 0 .. target[1] - 1 |-> [x \in 0 .. target[2] - 1 |->
                      RMul(map_coordinate(flow, np_linspace(flow.h - 1, target[1], y),
                                                np_linspace(flow.w - 1, target[2], x)),
                           scale)]],
                   target[1], target[2])]

\* <<flow_u_up, flow_v_up>>; the caller has checked that the coarse shape has no
\* zero (the divisions of lines 118-119 raise ZeroDivisionError otherwise)
upsample_flow(fu, fv, target) ==
    <<upsample_component(fu, target, flow_scale(target[2], fu.w)),
      upsample_component(fv, target, flow_scale(target[1], fu.h))>>

(***************************************************************************)
(* warp_image and upsample_flow, each called once.                         *)
(***************************************************************************)
\* flow values in units of 1/2
HalfFlows == {Frac(i, 2) : i \in -MaxFlow .. MaxFlow}

\* a flow field that is c everywhere but c + k where mark holds
FlowField(h, w, c, k, mark(_, _)) ==
    [h |-> h, w |-> w,
     a |-> [y \in 0 .. h - 1 |-> [x \in 0 .. w - 1 |->
              IF mark(y, x) THEN RAdd(c, k) ELSE c]]]

Odd(y, x) == (y + x) % 2 = 1
Origin(y, x) == y = 0 /\ x = 0

CallIdle ==
    /\ raised = "none"
    /\ frame_prev = None
    /\ frame_curr = None
    /\ Ix = None
    /\ Iy = None
    /\ It = None
    /\ window_size = 1
    /\ u = None
    /\ v = None
    /\ num_levels = 0
    /\ scale_factor = <<1, 2>>
    /\ level = 0
    /\ current = None
    /\ pyramid = <<>>

InitWarp ==
    /\ pc = "warp"
    /\ CallIdle
    /\ PyrIdle
    /\ MetricsIdle
    /\ ToolsIdle
    /\ \E bg \in Backgrounds, py \in 0 .. 1, px \in 0 .. 1, amp \in {1, MaxPix} :
          image = Pattern(MaxH, MaxW, bg, py, px, amp)
    /\ \E c \in HalfFlows, k \in {Zero, Whole(1)} :
          /\ flow_u = FlowField(MaxH, MaxW, c, k, Odd)
          /\ \E cv \in {c, RAdd(Whole(1), [n |-> -c.n, d |-> c.d])} :
                flow_v = FlowField(MaxH, MaxW, cv, Zero, Odd)
    /\ target_shape = <<0, 0>>
    /\ flow_u_up = None
    /\ flow_v_up = None
    /\ img_warped = None

Warp ==
    /\ pc = "warp"
    /\ img_warped' = warp_image(image, flow_u, flow_v)
    /\ pc' = "done"
    /\ UNCHANGED <<raised, solverVars, builderVars, flow_u, flow_v, target_shape,
                   flow_u_up, flow_v_up, pyrVars, metricVars, toolVars>>

NextWarp == Warp

SpecWarp == InitWarp /\ [][NextWarp]_vars

InitUpsample ==
    /\ pc = "upsample"
    /\ CallIdle
    /\ PyrIdle
    /\ MetricsIdle
    /\ ToolsIdle
    /\ image = None
    /\ \E ch \in 0 .. MaxCoarse, cw \in 0 .. MaxCoarse :
       \E c \in HalfFlows, k \in {Zero, Whole(1)} :
          /\ flow_u = FlowField(ch, cw, c, k, Origin)
          /\ \E cv \in {c, RAdd(Whole(1), [n |-> -c.n, d |-> c.d])} :
                flow_v = FlowField(ch, cw, cv, k, Origin)
    /\ target_shape \in (1 .. 2 * MaxCoarse) \X ({1, flow_u.w + 1, 2 * flow_u.w} \ {0})
    /\ flow_u_up = None
    /\ flow_v_up = None
    /\ img_warped = None

Upsample ==
    /\ pc = "upsample"
    /\ IF flow_u.h = 0 \/ flow_u.w = 0
       THEN /\ raised' = "ZeroDivisionError"
            /\ pc' = "raised"
            /\ UNCHANGED <<flow_u_up, flow_v_up>>
       ELSE /\ LET r == upsample_flow(flow_u, flow_v, target_shape)
               IN  /\ flow_u_up' = r[1]
                   /\ flow_v_up' = r[2]
            /\ pc' = "done"
            /\ UNCHANGED raised
    /\ UNCHANGED <<solverVars, builderVars, flow_u, flow_v, target_shape, img_warped,
                   pyrVars, metricVars, toolVars>>

NextUpsample == Upsample

SpecUpsample == InitUpsample /\ [][NextUpsample]_vars

(***************************************************************************)
(* lucas_kanade_pyramidal.py: lucas_kanade_pyramidal                       *)
(*                                                                         *)
(* The residual of an iteration is computed exactly where the model has    *)
(* the samples: on a level whose frames are tracked (the finest one) when  *)
(* the warped frame has whole samples.  Elsewhere (a smoothed level, or a  *)
(* warp that landed between samples) the residual is any of a few fields   *)
(* that are zero outside the solved interior, as the solver's are, and     *)
(* hold one value inside it: nothing, little or much on each component.    *)
(* visualize_pyramid_level is taken to succeed (matplotlib importable, the *)
(* output directory writable).                                             *)
(***************************************************************************)
\* lucas_kanade_pyramidal.py:217  mean < 0.01, as the fraction 1/ConvergenceDen
ConvergenceDen == 100

\* The mean of |f| is kept as bounds in units of 1/MeanUnit: the sum of the
\* |samples| lies in [lo, hi]/MeanUnit and n is the number of samples.  The
\* bounds coincide unless a sample is not a multiple of 1/MeanUnit.
MeanUnit == 128

\* <<lo, hi>> with lo <= MeanUnit * |p| <= hi, without leaving 32 bits
AbsBounds(p) ==
    LET q == Abs(p.n) \div p.d
        r == Abs(p.n) % p.d
        s == p.d \div Pow(2, 20) + 1
        rs == r \div s
        ds == p.d \div s
    IN  IF r = 0 THEN <<MeanUnit * q, MeanUnit * q>>
        ELSE IF p.d <= Pow(2, 24)
        THEN <<MeanUnit * q + (r * MeanUnit) \div p.d,
               MeanUnit * q + (r * MeanUnit + p.d - 1) \div p.d>>
        ELSE <<MeanUnit * q + (rs * MeanUnit) \div (ds + 1),
               MeanUnit * q + ((rs + 1) * MeanUnit) \div ds + 1>>

\* np.mean(np.abs(f)); n = 0 stands for nan, the mean of no samples
np_mean_abs(f) ==
    LET bnd == [y \in 0 .. f.h - 1 |-> [x \in 0 .. f.w - 1 |-> AbsBounds(f.a[y][x])]]
        tot(k) == SumRange([y \in 0 .. f.h - 1 |->
                              SumRange([x \in 0 .. f.w - 1 |-> bnd[y][x][k]], 0, f.w - 1)],
                           0, f.h - 1)
    IN  [lo |-> tot(1), hi |-> tot(2), n |-> f.h * f.w]

\* the values mean < 0.01 can have: one, unless the threshold lies within the
\* bounds; FALSE for nan
BelowThreshold(mean) ==
    {b \in BOOLEAN :
        /\ b => mean.n # 0 /\ ConvergenceDen * mean.lo < MeanUnit * mean.n
        /\ ~b => mean.n = 0 \/ ConvergenceDen * mean.hi >= MeanUnit * mean.n}

\* mean_du < 0.01 and mean_dv < 0.01, from the two comparisons
ConvergedEither(below_du, below_dv) == below_du \/ below_dv
Converged(below_du, below_dv) == below_du /\ below_dv

\* flow += residual
np_add_discarded(f, g) == f
np_add(f, g) ==
    [h |-> f.h, w |-> f.w,
     a |-> [y \in 0 .. f.h - 1 |-> [x \in 0 .. f.w - 1 |-> RAdd(f.a[y][x], g.a[y][x])]]]

IsTracked(img) == img.den # 0
IsWhole(f) == \A y \in 0 .. f.h - 1, x \in 0 .. f.w - 1 : f.a[y][x].d = 1
AsFrame(f) ==
    [h |-> f.h, w |-> f.w, den |-> 1,
     a |-> [y \in 0 .. f.h - 1 |-> [x \in 0 .. f.w - 1 |-> f.a[y][x].n]]]

\* warp_image on a level of the pyramid: tracked when the level is and every
\* sample is taken at a whole position
warp_level(img, fu, fv) ==
    IF IsTracked(img) /\ IsWhole(fu) /\ IsWhole(fv)
    THEN AsFrame(warp_image(img, fu, fv))
    ELSE Untracked(broadcast_shape(img, fu)[1], broadcast_shape(img, fu)[2])

Little == Frac(1, 128)
ResidualPairs ==
    {<<Zero, Zero>>, <<Little, Little>>, <<Zero, Whole(1)>>, <<Whole(1), Whole(1)>>}

ResidualField(h, w, win, r) ==
    [h |-> h, w |-> w,
     a |-> [y \in 0 .. h - 1 |-> [x \in 0 .. w - 1 |->
              IF y \in LoopRange(win \div 2, h) /\ x \in LoopRange(win \div 2, w)
              THEN r ELSE Zero]]]

\* the pairs <<du, dv>> lucas_kanade_single_scale(img_prev, img_warped, window_size)
\* can return
Residuals(img_prev, warped, win) ==
    IF IsTracked(img_prev) /\ IsTracked(warped)
    THEN LET r == lucas_kanade_single_scale(img_prev, warped, win)
         IN  {<<r[4], r[5]>>}
    ELSE {<<ResidualField(img_prev.h, img_prev.w, win, p[1]),
            ResidualField(img_prev.h, img_prev.w, win, p[2])>> : p \in ResidualPairs}

(***************************************************************************)
(* lucas_kanade_pyramidal, step by step.                                   *)
(***************************************************************************)
\* The smooth pattern (x + s) * y: against s = 0 it is the pattern x * y moved
\* as a whole by s pixels towards smaller x (dx = -s, dy = 0).
Smooth(h, w, s) == Grid(h, w, 1, LAMBDA y, x : (x + s) * y)

InitPyramidal ==
    /\ pc = "start"
    /\ raised = "none"
    /\ MetricsIdle
    /\ ToolsIdle
    /\ \/ /\ \/ \E shape \in {<<1, 2>>, <<MaxDim, MaxDim>>}, bg \in {0, 1},
                   d \in {<<0, 0>>, <<1, 0>>} :
                   /\ frame_prev = Pattern(shape[1], shape[2], bg, 0, 1, MaxPix)
                   /\ frame_curr = Pattern(shape[1], shape[2], bg, d[1], 1 + d[2], MaxPix)
             \/ \E hs \in {<<MaxDim, 1>>, <<MaxDim, MaxDim - 1>>, <<1, MaxDim>>} :
                   /\ frame_prev = Pattern(hs[1], MaxDim, 0, 0, 1, MaxPix)
                   /\ frame_curr = Pattern(hs[2], MaxDim, 0, 0, 2, MaxPix)
          /\ num_levels \in 0 .. MaxPyrLevels
          /\ window_size \in {MaxWindow - 1, MaxWindow}
       \* a smooth pattern moved by more than the window, three levels or more
       \/ /\ frame_prev = Smooth(MaxH + 2, MaxH + 2, 0)
          /\ frame_curr = Smooth(MaxH + 2, MaxH + 2, MaxWindow)
          /\ num_levels = MaxPyrLevels + 1
          /\ window_size = MaxWindow - 1
    /\ num_iterations \in 0 .. MaxIterations
    /\ Ix = None
    /\ Iy = None
    /\ It = None
    /\ u = None
    /\ v = None
    /\ image = None
    /\ scale_factor = <<1, 2>>
    /\ level = 0
    /\ current = None
    /\ pyramid = <<>>
    /\ FlowIdle
    /\ pyr_prev = <<>>
    /\ pyr_curr = <<>>
    /\ iteration = 0
    /\ du = None
    /\ dv = None
    /\ log = <<>>
    /\ files = {}

idleVars == <<Ix, Iy, It, u, v, image, scale_factor, current, pyramid, flow_u_up, flow_v_up>>
paramVars == <<frame_prev, frame_curr, num_levels, num_iterations, window_size>>

\* lines 167-180: the two pyramids and the zero flow of level 0's shape
\* (pyr_prev[0] of an empty list raises IndexError)
PyramidalStart ==
    /\ pc = "start"
    /\ pyr_prev' = build_gaussian_pyramid(frame_prev, num_levels, <<1, 2>>)
    /\ pyr_curr' = build_gaussian_pyramid(frame_curr, num_levels, <<1, 2>>)
    /\ IF num_levels <= 0
       THEN /\ raised' = "IndexError"
            /\ pc' = "raised"
            /\ UNCHANGED <<flow_u, flow_v>>
       ELSE /\ flow_u' = np_zeros(pyr_prev'[1].h, pyr_prev'[1].w)
            /\ flow_v' = np_zeros(pyr_prev'[1].h, pyr_prev'[1].w)
            /\ pc' = "level_loop"
            /\ UNCHANGED raised
    /\ level' = 0
    /\ log' = <<>>
    /\ UNCHANGED <<metricVars, toolVars, idleVars, paramVars, target_shape, img_warped, iteration, du, dv, files>>

\* line 191: if level > 0
upsample_never(lvl) == FALSE
upsample_always(lvl) == TRUE
upsample_needed(lvl) == lvl > 0

\* lines 183-193: the head of a pass of the level loop
EnterLevel ==
    /\ pc = "level_loop"
    /\ level < num_levels
    /\ IF upsample_needed(level)
       THEN /\ target_shape' = <<pyr_prev[level + 1].h, pyr_prev[level + 1].w>>
            /\ log' = log \o <<<<"level", level>>, <<"upsample", level>>>>
            /\ IF flow_u.h = 0 \/ flow_u.w = 0
               THEN /\ raised' = "ZeroDivisionError"
                    /\ pc' = "raised"
                    /\ UNCHANGED <<flow_u, flow_v>>
               ELSE /\ LET r == upsample_flow(flow_u, flow_v, target_shape')
                       IN  /\ flow_u' = r[1]
                           /\ flow_v' = r[2]
                    /\ pc' = "iter_loop"
                    /\ UNCHANGED raised
       ELSE /\ log' = Append(log, <<"level", level>>)
            /\ pc' = "iter_loop"
            /\ UNCHANGED <<raised, flow_u, flow_v, target_shape>>
    /\ iteration' = 0
    /\ UNCHANGED <<metricVars, toolVars, idleVars, paramVars, pyr_prev, pyr_curr, level, img_warped, du, dv, files>>

\* Whether a pass of the iteration loop gets past its array arithmetic on the
\* level images img_prev and img_curr (the flow has img_prev's shape):
\* xx + flow_u in warp_image needs img_curr's shape to broadcast with the flow's,
\* and flow_u += du needs the residual, which has the broadcast shape, to have
\* the flow's shape.  Otherwise numpy raises ValueError.
shapes_equal(img_prev, img_curr) == img_prev.h = img_curr.h /\ img_prev.w = img_curr.w
shapes_fit(img_prev, img_curr) ==
    broadcast_shape(img_curr, img_prev) = <<img_prev.h, img_prev.w>>

\* lines 197-219: one pass of the iteration loop
Iterate ==
    /\ pc = "iter_loop"
    /\ iteration < num_iterations
    /\ IF shapes_fit(pyr_prev[level + 1], pyr_curr[level + 1])
       THEN /\ img_warped' = warp_level(pyr_curr[level + 1], flow_u, flow_v)
            /\ \E r \in Residuals(pyr_prev[level + 1], img_warped', window_size) :
                  /\ du' = r[1]
                  /\ dv' = r[2]
            /\ flow_u' = np_add(flow_u, du')
            /\ flow_v' = np_add(flow_v, dv')
            /\ \E below_du \in BelowThreshold(np_mean_abs(du')),
                  below_dv \in BelowThreshold(np_mean_abs(dv')) :
                  IF Converged(below_du, below_dv)
                  THEN /\ pc' = "visualize"
                       /\ log' = log \o <<<<"warp", level, iteration>>,
                                          <<"break", level, iteration>>>>
                       /\ UNCHANGED iteration
                  ELSE /\ iteration' = iteration + 1
                       /\ log' = Append(log, <<"warp", level, iteration>>)
                       /\ UNCHANGED pc
            /\ UNCHANGED raised
       ELSE /\ raised' = "ValueError"
            /\ pc' = "raised"
            /\ log' = Append(log, <<"warp", level, iteration>>)
            /\ UNCHANGED <<img_warped, du, dv, flow_u, flow_v, iteration>>
    /\ UNCHANGED <<metricVars, toolVars, idleVars, paramVars, pyr_prev, pyr_curr, level, target_shape, files>>

\* line 197: range(num_iterations) is exhausted
IterationsExhausted ==
    /\ pc = "iter_loop"
    /\ iteration >= num_iterations
    /\ pc' = "visualize"
    /\ UNCHANGED <<metricVars, toolVars, idleVars, paramVars, raised, pyr_prev, pyr_curr, level, iteration,
                   flowVars, du, dv, log, files>>

\* line 222: visualize_pyramid_level writes pyramid_level_<level>.png
Visualize ==
    /\ pc = "visualize"
    /\ files' = files \cup {<<"pyramid_level", level>>}
    /\ log' = Append(log, <<"visualize", level>>)
    /\ level' = level + 1
    /\ pc' = "level_loop"
    /\ UNCHANGED <<metricVars, toolVars, idleVars, paramVars, raised, pyr_prev, pyr_curr, iteration,
                   flow_u, flow_v, target_shape, img_warped, du, dv>>

\* line 224
PyramidalReturn ==
    /\ pc = "level_loop"
    /\ level >= num_levels
    /\ pc' = "done"
    /\ UNCHANGED <<raised, solverVars, builderVars, flowVars, pyrVars, metricVars, toolVars>>

NextPyramidal ==
    \/ PyramidalStart
    \/ EnterLevel
    \/ Iterate
    \/ IterationsExhausted
    \/ Visualize
    \/ PyramidalReturn

SpecPyramidal == InitPyramidal /\ [][NextPyramidal]_vars

(***************************************************************************)
(* float32 arithmetic, round to nearest even, as numpy computes on         *)
(* float32 arrays.  Integers stay below 2^31: products and radicands are   *)
(* handled in halves or bit by bit.  Exponent overflow and subnormals are  *)
(* out of reach of the values used.                                        *)
(***************************************************************************)
Two12 == 4096
Two23 == 8388608
Two24 == 16777216

RECURSIVE BitLen(_)
BitLen(x) == IF x = 0 THEN 0 ELSE 1 + BitLen(x \div 2)

\* the float32 nearest to s * (M + rn/rd) * 2^e, for 2^23 <= M < 2^24 and
\* 0 <= rn < rd: ties go to the even mantissa
RoundMant(s, M, e, rn, rd) ==
    LET up == 2 * rn > rd \/ (2 * rn = rd /\ M % 2 = 1)
        M2 == IF up THEN M + 1 ELSE M
    IN  IF M2 = Two24 THEN [s |-> s, m |-> Two23, e |-> e + 1]
        ELSE [s |-> s, m |-> M2, e |-> e]

\* the float32 nearest to s * X * 2^e for an integer 0 <= X < 2^31
FromInt(s, X, e) ==
    IF X = 0 THEN FZero
    ELSE LET n == BitLen(X)
         IN  IF n <= 24
             THEN [s |-> s, m |-> X * Pow(2, 24 - n), e |-> e - (24 - n)]
             ELSE RoundMant(s, X \div Pow(2, n - 24), e + (n - 24),
                            X % Pow(2, n - 24), Pow(2, n - 24))

IsNaN(a) == a.s = 0
fneg(a) == IF IsNaN(a) \/ a.m = 0 THEN a ELSE [a EXCEPT !.s = -a.s]
fabs(a) == IF IsNaN(a) THEN a ELSE [a EXCEPT !.s = 1]

\* |a| < |b| for two floats that are not nan
MagLess(a, b) ==
    IF b.m = 0 THEN FALSE
    ELSE IF a.m = 0 THEN TRUE
    ELSE a.e < b.e \/ (a.e = b.e /\ a.m < b.m)

\* a < b; a comparison with nan is False
fless(a, b) ==
    IF IsNaN(a) \/ IsNaN(b) THEN FALSE
    ELSE IF a.m = 0 /\ b.m = 0 THEN FALSE
    ELSE IF a.m = 0 THEN b.s = 1
    ELSE IF b.m = 0 THEN a.s = -1
    ELSE IF a.s # b.s THEN a.s = -1
    ELSE IF a.s = 1 THEN MagLess(a, b) ELSE MagLess(b, a)

\* big + small for |big| >= |small|, both non-zero
AddOrdered(big, small) ==
    LET d == big.e - small.e
        same == big.s = small.s
    IN  IF d >= 26 THEN big
        ELSE IF d <= 6
        THEN FromInt(big.s,
                     big.m * Pow(2, d) + (IF same THEN small.m ELSE -small.m),
                     small.e)
        ELSE LET p == Pow(2, d)
                 bh == small.m \div p
                 bl == small.m % p
                 I == IF same THEN big.m + bh
                      ELSE IF bl = 0 THEN big.m - bh ELSE big.m - bh - 1
                 F == IF same \/ bl = 0 THEN bl ELSE p - bl
             IN  IF I >= Two24
                 THEN RoundMant(big.s, I \div 2, big.e + 1, (I % 2) * p + F, 2 * p)
                 ELSE IF I >= Two23
                 THEN RoundMant(big.s, I, big.e, F, p)
                 ELSE RoundMant(big.s, 2 * I + (2 * F) \div p, big.e - 1, (2 * F) % p, p)

fadd(a, b) ==
    IF IsNaN(a) \/ IsNaN(b) THEN NaN
    ELSE IF a.m = 0 THEN b
    ELSE IF b.m = 0 THEN a
    ELSE IF MagLess(a, b) THEN AddOrdered(b, a) ELSE AddOrdered(a, b)

fsub(a, b) == fadd(a, fneg(b))

fmul(a, b) ==
    IF IsNaN(a) \/ IsNaN(b) THEN NaN
    ELSE IF a.m = 0 \/ b.m = 0 THEN FZero
    ELSE LET a1 == a.m \div Two12
             a0 == a.m % Two12
             b1 == b.m \div Two12
             b0 == b.m % Two12
             mid == a1 * b0 + a0 * b1
             Lt == (mid % Two12) * Two12 + a0 * b0
             \* the product of the mantissas is H * 2^24 + L
             H == a1 * b1 + mid \div Two12 + Lt \div Two24
             L == Lt % Two24
             s == a.s * b.s
         IN  IF H >= Two23
             THEN RoundMant(s, H, a.e + b.e + 24, L, Two24)
             ELSE RoundMant(s, 2 * H + L \div Two23, a.e + b.e + 23, L % Two23, Two23)

\* k steps of long division by d: the pair <<quotient, remainder>>
RECURSIVE DivBits(_, _, _, _)
DivBits(q, r, d, k) ==
    IF k = 0 THEN <<q, r>>
    ELSE IF 2 * r >= d THEN DivBits(2 * q + 1, 2 * r - d, d, k - 1)
    ELSE DivBits(2 * q, 2 * r, d, k - 1)

\* a / b; 0/0 is nan.  A non-zero a over zero (inf) does not occur: the
\* divisors are element counts, zero only under a zero sum, and norms >= 1.
fdiv(a, b) ==
    IF IsNaN(a) \/ IsNaN(b) \/ b.m = 0 THEN NaN
    ELSE IF a.m = 0 THEN FZero
    ELSE LET k == IF a.m >= b.m THEN 23 ELSE 24
             qr == IF a.m >= b.m THEN DivBits(1, a.m - b.m, b.m, k)
                   ELSE DivBits(0, a.m, b.m, k)
         IN  RoundMant(a.s * b.s, qr[1], a.e - b.e - k, qr[2], b.m)

\* the binary square root of the 48-bit radicand hi * 2^24 + lo, two bits at
\* a time from pair i down to pair 0: the pair <<root, remainder>>
RECURSIVE SqrtBits(_, _, _, _, _)
SqrtBits(root, rem, hi, lo, i) ==
    IF i < 0 THEN <<root, rem>>
    ELSE LET pair == IF i >= 12 THEN (hi \div Pow(4, i - 12)) % 4
                     ELSE (lo \div Pow(4, i)) % 4
             r2 == 4 * rem + pair
             t == 4 * root + 1
         IN  IF r2 >= t THEN SqrtBits(2 * root + 1, r2 - t, hi, lo, i - 1)
             ELSE SqrtBits(2 * root, r2, hi, lo, i - 1)

\* np.sqrt of a float32 that is not negative
fsqrt(a) ==
    IF IsNaN(a) \/ a.s = -1 THEN NaN
    ELSE IF a.m = 0 THEN FZero
    ELSE LET k == IF (a.e - 24) % 2 = 0 THEN 24 ELSE 23
             hi == IF k = 24 THEN a.m ELSE a.m \div 2
             lo == IF k = 24 THEN 0 ELSE (a.m % 2) * Two23
             rr == SqrtBits(0, 0, hi, lo, 23)
             \* (root + 1/2)^2 <= radicand exactly when remainder > root
         IN  RoundMant(1, rr[1], (a.e - k) \div 2, IF rr[2] > rr[1] THEN 1 ELSE 0, 1)

FOne == FromInt(1, 1, 0)

(***************************************************************************)
(* flow_metrics.py.  The fields and the mask are indexed together and the  *)
(* metrics are element-wise, so a field is the sequence of its pixels.     *)
(***************************************************************************)
\* arr[mask]: the elements of arr where mask is True, in order
RECURSIVE np_select(_, _)
np_select(arr, msk) ==
    IF arr = <<>> THEN <<>>
    ELSE IF Head(msk) THEN <<Head(arr)>> \o np_select(Tail(arr), Tail(msk))
    ELSE np_select(Tail(arr), Tail(msk))

\* np.sum of a float32 array of fewer than 8 elements: added in order
RECURSIVE np_sum(_)
np_sum(arr) ==
    IF arr = <<>> THEN FZero
    ELSE fadd(np_sum(SubSeq(arr, 1, Len(arr) - 1)), arr[Len(arr)])

\* np.mean of a float32 array: the float32 sum over the count, nan when empty
np_mean(arr) == fdiv(np_sum(arr), FromInt(1, Len(arr), 0))

\* lines 34-40
mean_absolute_error(up, vp, ut, vt, msk) ==
    LET eu == np_select(up, msk)
        ev == np_select(vp, msk)
    IN  <<np_mean([i \in 1 .. Len(eu) |-> fabs(fsub(eu[i], ut))]),
          np_mean([i \in 1 .. Len(ev) |-> fabs(fsub(ev[i], vt))])>>

\* error_u**2 + error_v**2 of lines 65-67 and 98-100
squared_error(up, vp, ut, vt, msk) ==
    LET eu == np_select(up, msk)
        ev == np_select(vp, msk)
    IN  [i \in 1 .. Len(eu) |->
            LET error_u == fsub(eu[i], ut)
                error_v == fsub(ev[i], vt)
            IN  fadd(fmul(error_u, error_u), fmul(error_v, error_v))]

\* lines 62-69
root_mean_square_error(up, vp, ut, vt, msk) ==
    fsqrt(np_mean(squared_error(up, vp, ut, vt, msk)))

\* lines 95-102
endpoint_error(up, vp, ut, vt, msk) ==
    LET sq == squared_error(up, vp, ut, vt, msk)
    IN  np_mean([i \in 1 .. Len(sq) |-> fsqrt(sq[i])])

\* 1e-6 as a float32: 8796093 * 2^-43
MagThreshold == [s |-> 1, m |-> 8796093, e |-> -43]

\* np.sqrt(a**2 + b**2)
magnitude(a, b) == fsqrt(fadd(fmul(a, a), fmul(b, b)))

np_any(flags) == \E i \in 1 .. Len(flags) : flags[i]
np_all(flags) == \A i \in 1 .. Len(flags) : flags[i]

\* line 144: mag_true < 1e-6 and np.all(mag_pred < 1e-6).  mag_true is computed
\* in double; for the ground truths used here it is far from 1e-6 on either
\* side, so the float32 magnitude compares the same way.
near_zero_any(eu, ev, ut, vt) ==
    /\ fless(magnitude(ut, vt), MagThreshold)
    /\ np_any([i \in 1 .. Len(eu) |-> fless(magnitude(eu[i], ev[i]), MagThreshold)])
near_zero(eu, ev, ut, vt) ==
    /\ fless(magnitude(ut, vt), MagThreshold)
    /\ np_all([i \in 1 .. Len(eu) |-> fless(magnitude(eu[i], ev[i]), MagThreshold)])

\* np.clip(x, -1.0, 1.0)
np_clip(x) ==
    IF fless(FOne, x) THEN FOne ELSE IF fless(x, fneg(FOne)) THEN fneg(FOne) ELSE x

\* lines 148-157: the clipped cosine of the angle between (u, v, 1) and
\* (u_true, v_true, 1) at one pixel
dot_product(pu, pv, ut, vt) ==
    LET norm_pred == fsqrt(fadd(fadd(fmul(pu, pu), fmul(pv, pv)), FOne))
        norm_true == fsqrt(fadd(fadd(fmul(ut, ut), fmul(vt, vt)), FOne))
    IN  np_clip(fdiv(fadd(fadd(fmul(pu, ut), fmul(pv, vt)), FOne),
                     fmul(norm_pred, norm_true)))

\* lines 129-163.  The result is [shortcut, dot_product]: whether line 145
\* returned 0.0, and otherwise the clipped cosines whose arccos, in degrees, is
\* averaged.  arccos(x) is 0 for x = 1 and positive for x < 1.
angular_error(up, vp, ut, vt, msk) ==
    LET eu == np_select(up, msk)
        ev == np_select(vp, msk)
    IN  IF near_zero(eu, ev, ut, vt)
        THEN [shortcut |-> TRUE, dot_product |-> <<>>]
        ELSE [shortcut |-> FALSE,
              dot_product |-> [i \in 1 .. Len(eu) |-> dot_product(eu[i], ev[i], ut, vt)]]

\* the value angular_error returns is exactly 0.0
AngleIsZero(r) ==
    \/ r.shortcut
    \/ Len(r.dot_product) > 0 /\ \A i \in 1 .. Len(r.dot_product) : r.dot_product[i] = FOne

\* lines 189-201
compute_all_metrics(up, vp, ut, vt, msk) ==
    LET mae == mean_absolute_error(up, vp, ut, vt, msk)
    IN  [mae_u |-> mae[1], mae_v |-> mae[2],
         rmse |-> root_mean_square_error(up, vp, ut, vt, msk),
         epe |-> endpoint_error(up, vp, ut, vt, msk),
         aae |-> angular_error(up, vp, ut, vt, msk)]

\* the flow vectors handed in: zero, below 1e-6 in both components (2^-20 along
\* one axis; along both the magnitude is 2^-19.5 > 1e-6), and ordinary ones
Tiny == FromInt(1, 1, -20)
FlowVectors ==
    {<<FZero, FZero>>, <<Tiny, FZero>>, <<Tiny, Tiny>>,
     <<FromInt(1, 1, -1), FromInt(1, 1, -1)>>, <<FOne, FZero>>,
     <<FromInt(-1, 1, 0), FZero>>, <<FZero, FromInt(1, 3, 0)>>}

InitMetrics ==
    /\ pc = "metrics"
    /\ raised = "none"
    /\ frame_prev = None
    /\ frame_curr = None
    /\ Ix = None
    /\ Iy = None
    /\ It = None
    /\ window_size = 1
    /\ u = None
    /\ v = None
    /\ BuilderIdle
    /\ FlowIdle
    /\ PyrIdle
    /\ \E n \in 1 .. MaxPixels :
          /\ \E f \in [1 .. n -> FlowVectors] :
                /\ u_pred = [i \in 1 .. n |-> f[i][1]]
                /\ v_pred = [i \in 1 .. n |-> f[i][2]]
          /\ mask \in [1 .. n -> BOOLEAN]
    /\ \E t \in FlowVectors : u_true = t[1] /\ v_true = t[2]
    /\ metrics = NoMetrics
    /\ ToolsIdle

ComputeAllMetrics ==
    /\ pc = "metrics"
    /\ metrics' = compute_all_metrics(u_pred, v_pred, u_true, v_true, mask)
    /\ pc' = "done"
    /\ UNCHANGED <<raised, solverVars, builderVars, flowVars, pyrVars,
                   u_pred, v_pred, u_true, v_true, mask, toolVars>>

NextMetrics == ComputeAllMetrics

SpecMetrics == InitMetrics /\ [][NextMetrics]_vars

(***************************************************************************)
(* visualize_flow.py: the flow-field text file and its consumers.  A file  *)
(* is a sequence of lines, a line a record with a kind:                    *)
(*   "size"     # Image size: <width>x<height>                             *)
(*   "region"   # Test region: x[<x_min>:<x_max>], y[<y_min>:<y_max>]      *)
(*   "comment"  any other line that starts with '#'                        *)
(*   "data"     a row  x y u v                                             *)
(***************************************************************************)
MaxLines == 4

SizeLine(w, h) == [kind |-> "size", width |-> w, height |-> h]
RegionLine(x0, x1, y0, y1) ==
    [kind |-> "region", x_min |-> x0, x_max |-> x1, y_min |-> y0, y_max |-> y1]
CommentLine == [kind |-> "comment"]
DataLine == [kind |-> "data"]

\* visualize_flow.py:23  np.loadtxt(file_path, comments="#") keeps the data
\* rows and drops every comment line, wherever it stands
np_loadtxt(lines) == SelectSeq(lines, LAMBDA l : l.kind = "data")

\* metadata[key] = value
dict_set(d, key, value) ==
    [k \in DOMAIN d \cup {key} |-> IF k = key THEN value ELSE d[k]]

\* visualize_flow.py:29-49  the body of the loop over the lines of the file
metadata_line(d, l) ==
    IF l.kind = "size"
    THEN dict_set(dict_set(d, "width", l.width), "height", l.height)
    ELSE IF l.kind = "region"
    THEN dict_set(dict_set(dict_set(dict_set(d,
             "test_x_min", l.x_min), "test_x_max", l.x_max),
             "test_y_min", l.y_min), "test_y_max", l.y_max)
    ELSE d

\* visualize_flow.py:26-49
RECURSIVE metadata_loop(_, _, _)
metadata_loop(d, lines, i) ==
    IF i > Len(lines) THEN d
    ELSE metadata_loop(metadata_line(d, lines[i]), lines, i + 1)

\* visualize_flow.py:51-54  data[:, 0] needs a two-dimensional array, and
\* np.loadtxt returns one only for two rows or more
parse_flow_field(lines) ==
    LET data == np_loadtxt(lines)
        d == metadata_loop(NoMetadata, lines, 1)
    IN  IF Len(data) < 2
        THEN [raised |-> "IndexError", metadata |-> NoMetadata]
        ELSE [raised |-> "none", metadata |-> d]

\* visualize_flow.py:65-79
load_flow_field(lines) == parse_flow_field(lines).raised

RegionKeys == {"test_x_min", "test_y_min", "test_x_max", "test_y_max"}
\* all(key in metadata for key in [...])
has_test_region(d) == RegionKeys \subseteq DOMAIN d
\* "if metadata:" is true of every dictionary that is not empty
truthy(d) == DOMAIN d # {}

\* the four lookups that draw the rectangle
rectangle(d) == IF has_test_region(d) THEN "none" ELSE "KeyError"

\* visualize_flow.py:96-137
plot_flow_overlay(lines) ==
    LET p == parse_flow_field(lines)
    IN  IF p.raised # "none" THEN p.raised
        ELSE IF has_test_region(p.metadata) THEN rectangle(p.metadata)
        ELSE "none"

\* visualize_flow.py:159-188
plot_error_map(lines) ==
    LET p == parse_flow_field(lines)
    IN  IF load_flow_field(lines) # "none" THEN load_flow_field(lines)
        ELSE IF p.raised # "none" THEN p.raised
        ELSE IF truthy(p.metadata) THEN rectangle(p.metadata)
        ELSE "none"

\* visualize_flow.py:219-292
plot_comparison_grid(lines) ==
    LET p == parse_flow_field(lines)
    IN  IF p.raised # "none" THEN p.raised
        ELSE IF has_test_region(p.metadata) THEN rectangle(p.metadata)
        ELSE "none"

\* visualize_flow.py:308-339
print_statistics(lines) ==
    LET p == parse_flow_field(lines)
    IN  IF load_flow_field(lines) # "none" THEN load_flow_field(lines)
        ELSE p.raised

Lines == {SizeLine(3, 2), RegionLine(0, 1, 0, 1), CommentLine, DataLine}

CoreIdle ==
    /\ frame_prev = None
    /\ frame_curr = None
    /\ Ix = None
    /\ Iy = None
    /\ It = None
    /\ window_size = 1
    /\ u = None
    /\ v = None
    /\ BuilderIdle
    /\ FlowIdle
    /\ PyrIdle
    /\ MetricsIdle

InitFlowFile ==
    /\ pc = "file"
    /\ raised = "none"
    /\ CoreIdle
    /\ \E n \in 1 .. MaxLines : flow_file \in [1 .. n -> Lines]
    /\ consumer = "none"
    /\ metadata = NoMetadata
    /\ MemIdle
    /\ ClassifyIdle
    /\ CompareIdle
    /\ RefIdle
    /\ BaselineIdle

\* the return of a consumer: with the exception it raised, or without one
Returns(outcome) ==
    /\ raised' = outcome
    /\ metadata' = parse_flow_field(flow_file).metadata
    /\ pc' = IF outcome = "none" THEN "done" ELSE "raised"
    /\ UNCHANGED <<coreVars, flow_file, memVars, classifyVars, compareVars, refVars, baselineVars>>

ParseFlowField ==
    /\ pc = "file"
    /\ consumer' = "parse_flow_field"
    /\ Returns(parse_flow_field(flow_file).raised)

LoadFlowField ==
    /\ pc = "file"
    /\ consumer' = "load_flow_field"
    /\ Returns(load_flow_field(flow_file))

PlotFlowOverlay ==
    /\ pc = "file"
    /\ consumer' = "plot_flow_overlay"
    /\ Returns(plot_flow_overlay(flow_file))

PlotErrorMap ==
    /\ pc = "file"
    /\ consumer' = "plot_error_map"
    /\ Returns(plot_error_map(flow_file))

PlotComparisonGrid ==
    /\ pc = "file"
    /\ consumer' = "plot_comparison_grid"
    /\ Returns(plot_comparison_grid(flow_file))

PrintStatistics ==
    /\ pc = "file"
    /\ consumer' = "print_statistics"
    /\ Returns(print_statistics(flow_file))

NextFlowFile ==
    \/ ParseFlowField
    \/ LoadFlowField
    \/ PlotFlowOverlay
    \/ PlotErrorMap
    \/ PlotComparisonGrid
    \/ PrintStatistics

SpecFlowFile == InitFlowFile /\ [][NextFlowFile]_vars

(***************************************************************************)
(* generate_test_frames.py: save_as_mem_file, and convert_frames.py:       *)
(* mem_to_image.  A .mem file is a sequence of lines, a line the sequence  *)
(* of its characters without the newline.                                  *)
(***************************************************************************)
MaxFrameH == 2
MaxFrameW == 2

HexDigits == <<"0", "1", "2", "3", "4", "5", "6", "7",
               "8", "9", "a", "b", "c", "d", "e", "f">>

\* f"{pixel:02x}": lowercase hexadecimal, padded with zeros to two characters
format_02x_low_first(pixel) ==
    IF pixel < 16 THEN <<HexDigits[pixel + 1], "0">>
    ELSE <<HexDigits[(pixel % 16) + 1], HexDigits[(pixel \div 16) + 1]>>
format_02x(pixel) ==
    IF pixel < 16 THEN <<"0", HexDigits[pixel + 1]>>
    ELSE <<HexDigits[(pixel \div 16) + 1], HexDigits[(pixel % 16) + 1]>>

\* generate_test_frames.py:74-77  for row in frame: for pixel in row: one line
save_as_mem_file(fr) ==
    [i \in 1 .. fr.h * fr.w |->
        format_02x(fr.a[(i - 1) \div fr.w][(i - 1) % fr.w])]

\* the value of one character as a hexadecimal digit, -1 when it is none;
\* int(line, 16) reads capitals as well
UpperDigits == <<"A", "B", "C", "D", "E", "F">>
digit_value(c) ==
    IF \E k \in 1 .. 16 : HexDigits[k] = c
    THEN (CHOOSE k \in 1 .. 16 : HexDigits[k] = c) - 1
    ELSE IF \E k \in 1 .. 6 : UpperDigits[k] = c
    THEN (CHOOSE k \in 1 .. 6 : UpperDigits[k] = c) + 9
    ELSE -1

\* convert_frames.py:24  int(line, 16)
RECURSIVE int_16(_, _, _)
int_16(line, i, acc) ==
    IF i > Len(line) THEN acc
    ELSE int_16(line, i + 1, 16 * acc + digit_value(line[i]))

\* convert_frames.py:22  blank lines and // comments are not values
is_value_line(line) ==
    /\ line # <<>>
    /\ ~(Len(line) >= 2 /\ line[1] = "/" /\ line[2] = "/")

\* convert_frames.py:17-25  the values of the file, in the order of its lines
read_pixels(lines) ==
    LET kept == SelectSeq(lines, is_value_line)
    IN  [i \in 1 .. Len(kept) |-> int_16(kept[i], 1, 0)]

\* convert_frames.py:27-33
mem_to_image(lines, width, height) ==
    LET pixels == read_pixels(lines)
    IN  IF Len(pixels) # width * height
        THEN [raised |-> "ValueError", img |-> None]
        ELSE [raised |-> "none",
              img |-> Grid(height, width, 1,
                           LAMBDA y, x : pixels[y * width + x + 1])]

\* 8-bit frames: the pixel at row-major position k is base + k * step mod 256
PixelBases == {0, 9, 15, 160, 250}
PixelSteps == {0, 1, 7, 16, 37}
Uint8Frame(h, w, base, step) ==
    Grid(h, w, 1, LAMBDA y, x : (base + (y * w + x) * step) % 256)

InitMem ==
    /\ pc = "save"
    /\ raised = "none"
    /\ CoreIdle
    /\ FileIdle
    /\ \E h \in 1 .. MaxFrameH, w \in 1 .. MaxFrameW,
          base \in PixelBases, step \in PixelSteps :
          frame = Uint8Frame(h, w, base, step)
    /\ mem_file = <<>>
    /\ \E width \in 1 .. MaxFrameW, height \in 1 .. MaxFrameH :
          read_shape = <<width, height>>
    /\ img_array = None
    /\ ClassifyIdle
    /\ CompareIdle
    /\ RefIdle
    /\ BaselineIdle

SaveAsMemFile ==
    /\ pc = "save"
    /\ mem_file' = save_as_mem_file(frame)
    /\ pc' = "saved"
    /\ UNCHANGED <<raised, coreVars, fileVars, classifyVars, compareVars, refVars, baselineVars, frame, read_shape, img_array>>

MemToImage ==
    /\ pc = "saved"
    /\ LET r == mem_to_image(mem_file, read_shape[1], read_shape[2])
       IN  /\ raised' = r.raised
           /\ img_array' = r.img
           /\ pc' = IF r.raised = "none" THEN "done" ELSE "raised"
    /\ UNCHANGED <<coreVars, fileVars, classifyVars, compareVars, refVars, baselineVars, frame, mem_file, read_shape>>

NextMem == SaveAsMemFile \/ MemToImage

SpecMem == InitMem /\ [][NextMem]_vars

(***************************************************************************)
(* optical_flow_verifier.py: get_thresholds_for_pattern, classify_result.  *)
(* An error and a threshold are Python floats; the model writes them in    *)
(* tenths of a pixel as naturals, and nan, which no error of a frame with  *)
(* an empty test region escapes, as py_nan.                                *)
(***************************************************************************)
MaxMae == 4

py_nan == -1
\* a <= b, a < b and a > b on floats: false as soon as one side is nan
py_lt(a, b) == a # py_nan /\ b # py_nan /\ a < b
py_le(a, b) == a # py_nan /\ b # py_nan /\ a <= b
py_gt(a, b) == a # py_nan /\ b # py_nan /\ a > b
\* max(a, b) keeps its first argument unless the second compares greater
py_max(a, b) == IF py_gt(b, a) THEN b ELSE a

\* optical_flow_verifier.py:78-81  the loop over categories.items(), in the
\* order of the dictionary
RECURSIVE find_category(_, _, _)
find_category(categories, pattern_name, i) ==
    IF i > Len(categories) THEN "translation"
    ELSE IF pattern_name \in categories[i].patterns THEN categories[i].category
    ELSE find_category(categories, pattern_name, i + 1)

\* optical_flow_verifier.py:74-88
get_thresholds_for_pattern(pattern_name, cfg) ==
    LET category == find_category(cfg.pattern_categories, pattern_name, 1)
    IN  <<cfg.thresholds[category].mae_pass, cfg.thresholds[category].mae_warning>>

\* optical_flow_verifier.py:175-203
classify_result(mu, mv, ptype, cfg) ==
    LET mae_pass == get_thresholds_for_pattern(ptype, cfg)[1]
        mae_warning == get_thresholds_for_pattern(ptype, cfg)[2]
        mae_max == py_max(mu, mv)
    IN  IF py_le(mae_max, mae_pass) THEN "Pass"
        ELSE IF py_le(mae_max, mae_warning) THEN "Warning"
        ELSE "Fail"

\* the configurations: two categories with a pattern each, and thresholds
\* (mae_pass, mae_warning), of which one pair is out of order
ThresholdPairs == {<<1, 2>>, <<2, 3>>, <<3, 1>>}
PatternNames == {"translate_medium", "rotate_small", "unlisted"}
Config(t, r) ==
    [pattern_categories |->
        <<[category |-> "translation", patterns |-> {"translate_medium"}],
          [category |-> "rotation", patterns |-> {"rotate_small"}]>>,
     thresholds |->
        [translation |-> [mae_pass |-> t[1], mae_warning |-> t[2]],
         rotation |-> [mae_pass |-> r[1], mae_warning |-> r[2]]]]

\* the errors of one flow: two finite means, or nan twice for an empty region
MaeValues == 0 .. MaxMae
MaePairs == (MaeValues \X MaeValues) \cup {<<py_nan, py_nan>>}

InitClassify ==
    /\ pc = "classify"
    /\ raised = "none"
    /\ CoreIdle
    /\ FileIdle
    /\ MemIdle
    /\ \E p \in MaePairs : mae_u = p[1] /\ mae_v = p[2]
    /\ pattern_type \in PatternNames
    /\ \E t \in ThresholdPairs, r \in ThresholdPairs : config = Config(t, r)
    /\ status = ""
    /\ CompareIdle
    /\ RefIdle
    /\ BaselineIdle

ClassifyResult ==
    /\ pc = "classify"
    /\ status' = classify_result(mae_u, mae_v, pattern_type, config)
    /\ pc' = "done"
    /\ UNCHANGED <<raised, coreVars, fileVars, memVars, compareVars, refVars, baselineVars, mae_u, mae_v, pattern_type, config>>

NextClassify == ClassifyResult

SpecClassify == InitClassify /\ [][NextClassify]_vars

(***************************************************************************)
(* optical_flow_verifier.py: compare_metrics.  Metric values are written   *)
(* in units of 1e-6, so that the constant 1e-6 of the code is Epsilon = 1; *)
(* a dictionary of metrics is a function from the names it holds.          *)
(***************************************************************************)
MaxChange == 11

\* optical_flow_verifier.py:610  1e-6, in units of 1e-6
Epsilon == 1

\* d.get(key, 0.0)
dict_get(d, key) == IF key \in DOMAIN d THEN d[key] ELSE 0

\* optical_flow_verifier.py:615  100.0 * (curr_val - base_val) / base_val as
\* the fraction [num, den]; nan when an operand is
percent_change(curr_val, base_val) ==
    IF curr_val = py_nan \/ base_val = py_nan THEN [nan |-> TRUE, num |-> 0, den |-> 1]
    ELSE [nan |-> FALSE, num |-> 100 * (curr_val - base_val), den |-> base_val]

\* optical_flow_verifier.py:622  abs(percent_change) > threshold_percent, for
\* a positive denominator
exceeds_signed(change, threshold) == ~change.nan /\ change.num > threshold * change.den
exceeds(change, threshold) == ~change.nan /\ Abs(change.num) > threshold * change.den

\* optical_flow_verifier.py:606-626  the body of the loop, for one metric:
\* whether it is flagged, and whether a difference is recorded for it
compare_one(curr, base, threshold, metric) ==
    LET curr_val == dict_get(curr, metric)
        base_val == dict_get(base, metric)
    IN  IF py_lt(base_val, Epsilon)
        THEN [flag |-> py_gt(curr_val, Epsilon), difference |-> FALSE]
        ELSE [flag |-> exceeds(percent_change(curr_val, base_val), threshold),
              difference |-> TRUE]

KeyMetrics == <<"mae_u", "mae_v", "epe">>

\* optical_flow_verifier.py:586-634
compare_metrics(curr, base, threshold) ==
    LET one(i) == compare_one(curr, base, threshold, KeyMetrics[i])
        flags == SelectSeq(KeyMetrics,
                     LAMBDA name : compare_one(curr, base, threshold, name).flag)
    IN  [passed |-> Len(flags) = 0,
         differences |-> {KeyMetrics[i] : i \in {j \in 1 .. 3 : one(j).difference}},
         flags |-> flags]

\* the metric dictionaries: a baseline of zeros and hundreds, a current value
\* within MaxChange of a hundred or near zero, nan throughout for a pattern
\* with an empty test region, and a baseline written before epe was recorded
MetricDict(mu, mv, e, r, a) ==
    [mae_u |-> mu, mae_v |-> mv, rmse |-> r, epe |-> e, aae |-> a]
NanDict == MetricDict(py_nan, py_nan, py_nan, py_nan, py_nan)
BaselineValues == {0, 100}
CurrentValues ==
    {0, 2, 100 - MaxChange, 101 - MaxChange, 100, 99 + MaxChange, 100 + MaxChange}
OtherValues == {100, 300}
BaselineDicts ==
    {MetricDict(mu, mv, e, 100, 100) : mu \in BaselineValues, mv \in BaselineValues, e \in BaselineValues}
    \cup {NanDict}
    \cup {[mae_u |-> mu, mae_v |-> mv] : mu \in BaselineValues, mv \in BaselineValues}
CurrentDicts ==
    {MetricDict(mu, mv, e, o, o) : mu \in CurrentValues, mv \in CurrentValues,
                                   e \in CurrentValues, o \in OtherValues}
    \cup {NanDict}
RegressionThresholds == {0, MaxChange - 1}

InitCompare ==
    /\ pc = "compare"
    /\ raised = "none"
    /\ CoreIdle
    /\ FileIdle
    /\ MemIdle
    /\ ClassifyIdle
    /\ current_metrics \in CurrentDicts
    /\ baseline_metrics \in BaselineDicts
    /\ threshold_percent \in RegressionThresholds
    /\ comparison = NoComparison
    /\ RefIdle
    /\ BaselineIdle

CompareMetrics ==
    /\ pc = "compare"
    /\ comparison' = compare_metrics(current_metrics, baseline_metrics, threshold_percent)
    /\ pc' = "done"
    /\ UNCHANGED <<raised, coreVars, fileVars, memVars, classifyVars, refVars, baselineVars,
                   current_metrics, baseline_metrics, threshold_percent>>

NextCompare == CompareMetrics

SpecCompare == InitCompare /\ [][NextCompare]_vars

(***************************************************************************)
(* lucas_kanade_reference.py: its own compute_gradients and                *)
(* lucas_kanade_window, translated line by line from that file; only the   *)
(* numpy and scipy primitives are those used for the core above.           *)
(***************************************************************************)
\* lucas_kanade_reference.py:30-32  the kernels before the division by 8.0
ref_sobel_x == <<<<-1, 0, 1>>, <<-2, 0, 2>>, <<-1, 0, 1>>>>
ref_sobel_y == <<<<-1, -2, -1>>, <<0, 0, 0>>, <<1, 2, 1>>>>
\* lucas_kanade_reference.py:30  / 8.0, and :35  / 2.0
RefSobelDiv == 8
RefAvgDiv == 2
\* lucas_kanade_reference.py:97  abs(det) > 1e-4, as the fraction 1/RefDetThresholdDen
RefDetThresholdDen == 10000

\* lucas_kanade_reference.py:44  It = frame_prev - frame_curr, in units of
\* 1/(8*2) of an intensity step
ref_temporal_reversed(prev, curr, y, x) ==
    RefSobelDiv * RefAvgDiv * (curr.a[y][x] - prev.a[y][x])
ref_temporal(prev, curr, y, x) ==
    RefSobelDiv * RefAvgDiv * (prev.a[y][x] - curr.a[y][x])

\* lucas_kanade_reference.py:16-46  the triple <<Ix, Iy, It>>
ref_compute_gradients(prev, curr) ==
    LET frame_avg ==
            [h |-> prev.h, w |-> prev.w, den |-> prev.den,
             a |-> Samples([y \in 0 .. prev.h - 1 |-> [x \in 0 .. prev.w - 1 |->
                             prev.a[y][x] + curr.a[y][x]]], prev.h, prev.w)]
        array(f(_, _)) ==
            [h |-> prev.h, w |-> prev.w, den |-> RefSobelDiv * RefAvgDiv * prev.den,
             a |-> Samples([y \in 0 .. prev.h - 1 |-> [x \in 0 .. prev.w - 1 |-> f(y, x)]],
                           prev.h, prev.w)]
    IN  << array(LAMBDA y, x : convolve2d_at(frame_avg, ref_sobel_x, y, x)),
           array(LAMBDA y, x : convolve2d_at(frame_avg, ref_sobel_y, y, x)),
           array(LAMBDA y, x : ref_temporal(prev, curr, y, x)) >>

\* lucas_kanade_reference.py:76-99  the body of the pixel loop at (y, x)
window_pixel(gIx, gIy, gIt, half_win, y, x) ==
    LET wy == PySlice(y - half_win, y + half_win + 1, gIx.h)
        wx == PySlice(x - half_win, x + half_win + 1, gIx.w)
        sum_Ix2  == np_sum_prod(gIx, gIx, wy, wx)
        sum_Iy2  == np_sum_prod(gIy, gIy, wy, wx)
        sum_IxIy == np_sum_prod(gIx, gIy, wy, wx)
        sum_IxIt == np_sum_prod(gIx, gIt, wy, wx)
        sum_IyIt == np_sum_prod(gIy, gIt, wy, wx)
        A == <<<<sum_Ix2, sum_IxIy>>, <<sum_IxIy, sum_Iy2>>>>
        b == <<-sum_IxIt, -sum_IyIt>>
        det == A[1][1] * A[2][2] - A[1][2] * A[2][1]
    IN  IF Abs(det) > Pow(gIx.den, 4) \div RefDetThresholdDen
        THEN <<Frac(A[2][2] * b[1] - A[1][2] * b[2], det),
               Frac(A[1][1] * b[2] - A[1][2] * b[1], det)>>
        ELSE <<Zero, Zero>>

\* lucas_kanade_reference.py:49-102  the pair <<u, v>>
lucas_kanade_window(gIx, gIy, gIt, win) ==
    LET height == gIx.h
        width == gIx.w
        half_win == win \div 2
        ys == half_win .. height - half_win - 1
        xs == half_win .. width - half_win - 1
        solved == [y \in ys |-> [x \in xs |-> window_pixel(gIx, gIy, gIt, half_win, y, x)]]
        field(k) ==
            [h |-> height, w |-> width,
             a |-> Samples([y \in 0 .. height - 1 |-> [x \in 0 .. width - 1 |->
                             IF y \in ys /\ x \in xs THEN solved[y][x][k] ELSE Zero]],
                           height, width)]
    IN  <<field(1), field(2)>>

\* lucas_kanade_reference.py:228-233  main: gradients, then the flow
InitReference ==
    /\ pc = "reference"
    /\ BuilderIdle
    /\ FlowIdle
    /\ PyrIdle
    /\ MetricsIdle
    /\ ToolsIdle
    /\ raised = "none"
    /\ window_size \in {MaxWindow - 1, MaxWindow}
    /\ InitFrames(MaxH, MaxW) \/ InitTranslated(MaxH + 2, MaxW + 1)
    /\ Ix = None
    /\ Iy = None
    /\ It = None
    /\ u = None
    /\ v = None

ReferenceWindow ==
    /\ pc = "reference"
    /\ LET g == ref_compute_gradients(frame_prev, frame_curr)
           r == lucas_kanade_window(g[1], g[2], g[3], window_size)
       IN  /\ u_ref' = r[1]
           /\ v_ref' = r[2]
    /\ pc' = "single_scale"
    /\ UNCHANGED <<raised, coreVars, fileVars, memVars, classifyVars, compareVars, baselineVars>>

NextReference == ReferenceWindow \/ SingleScale

SpecReference == InitReference /\ [][NextReference]_vars

(***************************************************************************)
(* optical_flow_verifier.py: the end of main, where the baseline file is   *)
(* rewritten and compared against.  A result holds the pattern's name and  *)
(* the two metric dictionaries (the fields the comparison reads); the file *)
(* holds what json.dump writes, a float as its token.                      *)
(***************************************************************************)
MaxPatterns == 2

\* optical_flow_verifier.py:299-312  the dictionary verify_pattern returns
Result(name, single, pyr) ==
    [pattern_name |-> name,
     single_scale |-> [metrics |-> single],
     pyramidal |-> [metrics |-> pyr]]

\* json.dump of a float: its shortest repr, or the token NaN
json_dump_float(x) ==
    IF x = py_nan THEN [token |-> "NaN"] ELSE [token |-> "number", repr |-> x]
\* json.load of the token
json_load_float(t) == IF t.token = "NaN" THEN py_nan ELSE t.repr

json_dump_result(r) ==
    [pattern_name |-> r.pattern_name,
     single_scale |-> [metrics |-> [k \in DOMAIN r.single_scale.metrics |->
                                       json_dump_float(r.single_scale.metrics[k])]],
     pyramidal |-> [metrics |-> [k \in DOMAIN r.pyramidal.metrics |->
                                    json_dump_float(r.pyramidal.metrics[k])]]]
json_load_result(r) ==
    [pattern_name |-> r.pattern_name,
     single_scale |-> [metrics |-> [k \in DOMAIN r.single_scale.metrics |->
                                       json_load_float(r.single_scale.metrics[k])]],
     pyramidal |-> [metrics |-> [k \in DOMAIN r.pyramidal.metrics |->
                                    json_load_float(r.pyramidal.metrics[k])]]]

\* {result["pattern_name"]: result for result in results}: the last result of
\* a name is the one kept
patterns_dict(results) ==
    LET names == {results[i].pattern_name : i \in 1 .. Len(results)}
        last(n) == CHOOSE i \in 1 .. Len(results) :
                       /\ results[i].pattern_name = n
                       /\ \A j \in i + 1 .. Len(results) : results[j].pattern_name # n
    IN  [n \in names |-> results[last(n)]]

\* optical_flow_verifier.py:722-735  the file after the call
update_baseline_not_written(results, file) == file
update_baseline(results, file) ==
    LET patterns == patterns_dict(results)
    IN  [exists |-> TRUE,
         data |-> [version |-> "1.0", timestamp |-> "now",
                   patterns |-> [n \in DOMAIN patterns |-> json_dump_result(patterns[n])]]]

\* optical_flow_verifier.py:571-583  {} for a missing file
load_baseline(file) ==
    IF ~file.exists THEN <<>>
    ELSE IF "patterns" \in DOMAIN file.data
         THEN [file.data EXCEPT !.patterns =
                  [n \in DOMAIN file.data.patterns |-> json_load_result(file.data.patterns[n])]]
         ELSE file.data

\* optical_flow_verifier.py:662-701  the loop over the results from the i-th
\* on: whether all_passed is still True after it
RECURSIVE results_loop(_, _, _, _)
results_loop(results, baseline_patterns, threshold, i) ==
    IF i > Len(results) THEN TRUE
    ELSE LET result == results[i]
             pattern_name == result.pattern_name
             rest == results_loop(results, baseline_patterns, threshold, i + 1)
         IN  IF pattern_name \notin DOMAIN baseline_patterns THEN rest
             ELSE LET baseline_result == baseline_patterns[pattern_name]
                      single_comparison ==
                          compare_metrics(result.single_scale.metrics,
                                          baseline_result.single_scale.metrics, threshold)
                      pyr_comparison ==
                          compare_metrics(result.pyramidal.metrics,
                                          baseline_result.pyramidal.metrics, threshold)
                  IN  single_comparison.passed /\ pyr_comparison.passed /\ rest

\* optical_flow_verifier.py:637-719  the value returned
compare_against_baseline(results, file, threshold) ==
    LET baseline == load_baseline(file)
    IN  IF ~truthy(baseline) THEN TRUE
        ELSE LET baseline_patterns ==
                     IF "patterns" \in DOMAIN baseline THEN baseline.patterns ELSE <<>>
             IN  results_loop(results, baseline_patterns, threshold, 1)

\* the patterns of the suite, and what one run can measure on a pattern: the
\* same hundred in every metric, a single-scale mae_u above it, a pyramidal
\* epe below it, and nan throughout
SuitePatterns == {"translate_medium", "rotate_small"}
Steady == MetricDict(100, 100, 100, 100, 100)
Measurements ==
    { <<Steady, Steady>>,
      <<MetricDict(100 + MaxChange, 100, 100, 100, 100), Steady>>,
      <<Steady, MetricDict(100, 100, 100 - MaxChange, 100, 100)>>,
      <<NanDict, NanDict>> }
RECURSIVE PatternLists(_)
PatternLists(n) ==
    IF n = 0 THEN {<<>>}
    ELSE {Append(l, p) : l \in PatternLists(n - 1), p \in SuitePatterns}
PatternsToTest == UNION {PatternLists(n) : n \in 1 .. MaxPatterns}
\* the results of the loop of lines 829-845 over patterns_to_test
Results(patterns, measured) ==
    [i \in 1 .. Len(patterns) |->
        Result(patterns[i], measured[patterns[i]][1], measured[patterns[i]][2])]
\* the file before the run: missing, holding {}, or written by an earlier run
EarlierFiles ==
    {NoBaselineFile, [exists |-> TRUE, data |-> <<>>]}
    \cup {update_baseline(Results(<<"translate_medium">>, [p \in SuitePatterns |-> m]),
                          NoBaselineFile) : m \in Measurements}
    \cup {update_baseline(Results(<<"translate_medium", "rotate_small">>,
                                  [p \in SuitePatterns |-> <<Steady, Steady>>]),
                          NoBaselineFile)}
\* --regression-threshold takes any float
CommandLineThresholds == RegressionThresholds \cup {-1}

InitBaseline ==
    /\ pc = "main_update"
    /\ raised = "none"
    /\ CoreIdle
    /\ FileIdle
    /\ MemIdle
    /\ ClassifyIdle
    /\ CompareIdle
    /\ RefIdle
    /\ args \in [update_baseline : BOOLEAN, compare_baseline : BOOLEAN,
                 regression_threshold : CommandLineThresholds]
    /\ \E patterns \in PatternsToTest, measured \in [SuitePatterns -> Measurements] :
          all_results = Results(patterns, measured)
    /\ baseline_file \in EarlierFiles
    /\ exit_status = 0

\* optical_flow_verifier.py:903-904
UpdateBaseline ==
    /\ pc = "main_update"
    /\ args.update_baseline
    /\ baseline_file' = update_baseline(all_results, baseline_file)
    /\ pc' = "main_compare"
    /\ UNCHANGED <<raised, coreVars, fileVars, memVars, classifyVars, compareVars, refVars,
                   args, all_results, exit_status>>

NoUpdate ==
    /\ pc = "main_update"
    /\ ~args.update_baseline
    /\ pc' = "main_compare"
    /\ UNCHANGED <<raised, coreVars, toolVars>>

\* optical_flow_verifier.py:906-915  sys.exit(1) on a regression
CompareBaseline ==
    /\ pc = "main_compare"
    /\ args.compare_baseline
    /\ LET regression_passed ==
               compare_against_baseline(all_results, baseline_file,
                                        args.regression_threshold)
       IN  exit_status' = IF ~regression_passed THEN 1 ELSE 0
    /\ pc' = "main_exit"
    /\ UNCHANGED <<raised, coreVars, fileVars, memVars, classifyVars, compareVars, refVars,
                   args, all_results, baseline_file>>

NoCompare ==
    /\ pc = "main_compare"
    /\ ~args.compare_baseline
    /\ pc' = "main_exit"
    /\ UNCHANGED <<raised, coreVars, toolVars>>

NextBaseline == UpdateBaseline \/ NoUpdate \/ CompareBaseline \/ NoCompare

SpecBaseline == InitBaseline /\ [][NextBaseline]_vars

(***************************************************************************)
(* lucas_kanade_pyramidal.py: warp_image followed by                       *)
(* lucas_kanade_single_scale, as the iteration loop calls them, on a frame *)
(* pair and a flow that is the same whole displacement at every pixel.     *)
(***************************************************************************)
\* whole displacements <<dy, dx>> in both directions
Displacements == {<<dy, dx>> : dy \in -1 .. 1, dx \in -1 .. 1}

\* np.full((h, w), c) for the whole number c
ConstantFlow(h, w, c) ==
    [h |-> h, w |-> w, a |-> [y \in 0 .. h - 1 |-> [x \in 0 .. w - 1 |-> Whole(c)]]]

InitRefine ==
    /\ pc = "refine_warp"
    /\ raised = "none"
    /\ BuilderIdle
    /\ PyrIdle
    /\ MetricsIdle
    /\ ToolsIdle
    /\ Ix = None
    /\ Iy = None
    /\ It = None
    /\ u = None
    /\ v = None
    /\ window_size \in {MaxWindow - 1, MaxWindow}
    /\ \/ \E d \in Displacements, f \in Displacements :
             /\ f \in {d, <<0, 0>>, <<d[2], d[1]>>}
             /\ frame_prev = Translated(MaxH + 2, MaxW + 1, <<0, 0>>)
             /\ frame_curr = Translated(MaxH + 2, MaxW + 1, d)
             /\ flow_u = ConstantFlow(MaxH + 2, MaxW + 1, f[2])
             /\ flow_v = ConstantFlow(MaxH + 2, MaxW + 1, f[1])
       \/ /\ InitFrames(MaxH, MaxW)
          /\ \E f \in {<<0, 1>>, <<-1, 0>>} :
                /\ flow_u = ConstantFlow(MaxH, MaxW, f[2])
                /\ flow_v = ConstantFlow(MaxH, MaxW, f[1])
    /\ target_shape = <<0, 0>>
    /\ flow_u_up = None
    /\ flow_v_up = None
    /\ img_warped = None

\* lucas_kanade_pyramidal.py:199  img_warped = warp_image(img_curr, flow_u, flow_v)
RefineWarp ==
    /\ pc = "refine_warp"
    /\ img_warped' = warp_level(frame_curr, flow_u, flow_v)
    /\ pc' = "refine_residual"
    /\ UNCHANGED <<raised, solverVars, builderVars, flow_u, flow_v, target_shape,
                   flow_u_up, flow_v_up, pyrVars, metricVars, toolVars>>

\* lucas_kanade_pyramidal.py:202  du, dv = lucas_kanade_single_scale(img_prev,
\* img_warped, window_size)
RefineResidual ==
    /\ pc = "refine_residual"
    /\ LET r == lucas_kanade_single_scale(frame_prev, img_warped, window_size)
       IN  /\ du' = r[4]
           /\ dv' = r[5]
    /\ pc' = "done"
    /\ UNCHANGED <<raised, solverVars, builderVars, flowVars, num_iterations, pyr_prev,
                   pyr_curr, iteration, log, files, metricVars, toolVars>>

NextRefine == RefineWarp \/ RefineResidual

SpecRefine == InitRefine /\ [][NextRefine]_vars

(***************************************************************************)
(* Claims about the windowed solver.                                       *)
(***************************************************************************)
RECURSIVE SumOver(_, _)
SumOver(f, S) ==
    IF S = {} THEN 0
    ELSE LET i == CHOOSE j \in S : TRUE IN f[i] + SumOver(f, S \ {i})

\* the window_size x window_size neighbourhood of (y, x)
Window(y, x, win) ==
    {<<yy, xx>> : yy \in y - win \div 2 .. y + win \div 2,
                  xx \in x - win \div 2 .. x + win \div 2}

WindowFits(y, x, win, h, w) ==
    \A p \in Window(y, x, win) : p[1] \in 0 .. h - 1 /\ p[2] \in 0 .. w - 1

\* the sum of P*Q over the window of (y, x)
S(P, Q, y, x, win) ==
    SumOver([p \in Window(y, x, win) |-> P.a[p[1]][p[2]] * Q.a[p[1]][p[2]]],
            Window(y, x, win))

Det(y, x) ==
    S(Ix, Ix, y, x, window_size) * S(Iy, Iy, y, x, window_size)
      - S(Ix, Iy, y, x, window_size) * S(Ix, Iy, y, x, window_size)

\* |det| <= 1e-4 with det = dt / den^4
NearSingular(dt, den) == Abs(dt) <= (den * den * den * den) \div 10000

\* the fraction q equals num / dt
IsQuotient(q, num, dt) == q.d > 0 /\ q.n * dt = num * q.d

\* C1: once lucas_kanade_from_gradients has returned for an odd window_size, every
\* pixel whose window fits in the frame holds (0,0) when |det| <= 1e-4 and
\* otherwise u = (Syy*b0 - Sxy*b1)/det, v = (Sxx*b1 - Sxy*b0)/det with
\* b = (-Sxt, -Syt), det = Sxx*Syy - Sxy^2; and no error was raised.
C1_SolverFormula ==
    (pc = "done" /\ window_size % 2 = 1) =>
        /\ raised = "none"
        /\ \A y \in 0 .. Ix.h - 1, x \in 0 .. Ix.w - 1 :
              WindowFits(y, x, window_size, Ix.h, Ix.w) =>
                LET Sxx == S(Ix, Ix, y, x, window_size)
                    Syy == S(Iy, Iy, y, x, window_size)
                    Sxy == S(Ix, Iy, y, x, window_size)
                    b0 == -S(Ix, It, y, x, window_size)
                    b1 == -S(Iy, It, y, x, window_size)
                    dt == Sxx * Syy - Sxy * Sxy
                IN  IF NearSingular(dt, Ix.den)
                    THEN u.a[y][x] = Zero /\ v.a[y][x] = Zero
                    ELSE /\ IsQuotient(u.a[y][x], Syy * b0 - Sxy * b1, dt)
                         /\ IsQuotient(v.a[y][x], Sxx * b1 - Sxy * b0, dt)

\* a returned flow with a pixel whose determinant is exactly 1e-4 while b # 0
C1_Witness ==
    /\ pc = "done"
    /\ window_size % 2 = 1
    /\ \E y \in 0 .. Ix.h - 1, x \in 0 .. Ix.w - 1 :
          /\ WindowFits(y, x, window_size, Ix.h, Ix.w)
          /\ (Ix.den * Ix.den * Ix.den * Ix.den) % 10000 = 0
          /\ Abs(Det(y, x)) = (Ix.den * Ix.den * Ix.den * Ix.den) \div 10000
          /\ S(Ix, It, y, x, window_size) # 0
          /\ u.a[y][x] = Zero

\* a returned flow with a pixel solved by Cramer's rule to a non-zero vector
C1_SolvedWitness ==
    /\ pc = "done"
    /\ window_size % 2 = 1
    /\ \E y \in 0 .. Ix.h - 1, x \in 0 .. Ix.w - 1 :
          u.a[y][x] # Zero /\ v.a[y][x] # Zero /\ S(Ix, Iy, y, x, window_size) # 0

\* C2: the returned flow is exactly zero in u and v at every pixel within
\* window_size // 2 of a frame edge, for every input and every window_size.
C2_BoundaryZero ==
    pc = "done" =>
        \A y \in 0 .. u.h - 1, x \in 0 .. u.w - 1 :
            LET m == window_size \div 2
            IN  (y < m \/ x < m \/ y > u.h - 1 - m \/ x > u.w - 1 - m) =>
                    (u.a[y][x] = Zero /\ v.a[y][x] = Zero)

\* a returned flow that is non-zero next to a zero margin of width >= 1
C2_Witness ==
    /\ pc = "done"
    /\ window_size \div 2 >= 1
    /\ \E y \in 0 .. u.h - 1, x \in 0 .. u.w - 1 : u.a[y][x] # Zero

\* C3: for identical frames lucas_kanade_single_scale returns u = 0 and v = 0 at
\* every pixel, whatever the frame content and the window_size.
C3_ZeroMotion ==
    (pc = "done" /\ frame_prev = frame_curr) =>
        \A y \in 0 .. u.h - 1, x \in 0 .. u.w - 1 :
            u.a[y][x] = Zero /\ v.a[y][x] = Zero

\* identical frames with a window textured enough to be solved (det above 1e-4)
C3_Witness ==
    /\ pc = "done"
    /\ frame_prev = frame_curr
    /\ \E y \in 0 .. Ix.h - 1, x \in 0 .. Ix.w - 1 :
          /\ WindowFits(y, x, window_size, Ix.h, Ix.w)
          /\ ~NearSingular(Det(y, x), Ix.den)

(***************************************************************************)
(* Claims about the pyramid builder.                                       *)
(***************************************************************************)
\* C9: for num_levels >= 1 build_gaussian_pyramid returns exactly num_levels
\* frames, coarsest first, whose last element equals the input pixel for pixel,
\* and the caller's image is what it was at the call.
C9_PyramidOrder ==
    /\ [](pc = "done" /\ num_levels >= 1 =>
            /\ Len(pyramid) = num_levels
            /\ pyramid[num_levels] = image
            /\ pyramid[num_levels].den = 1
            /\ \A i \in 1 .. num_levels - 1 :
                  /\ pyramid[i].h <= pyramid[i + 1].h
                  /\ pyramid[i].w <= pyramid[i + 1].w)
    /\ [][image' = image]_vars

\* a returned pyramid of at least two levels whose coarsest is smaller than the input
C9_Witness ==
    /\ pc = "done"
    /\ num_levels >= 2
    /\ pyramid[1].h < image.h
    /\ pyramid[1].w < image.w
    /\ pyramid[num_levels] = image

\* round(num / 2^k), ties to even (Python) or ties up
RoundHalfEven(num, p) ==
    LET q == num \div p
        r == num % p
    IN  IF 2 * r > p \/ (2 * r = p /\ q % 2 = 1) THEN q + 1 ELSE q
RoundHalfUp(num, p) == (2 * num + p) \div (2 * p)
IsRound(x, num, p) == x = RoundHalfEven(num, p) \/ x = RoundHalfUp(num, p)

IsConstant(f, c) == \A y \in 0 .. f.h - 1, x \in 0 .. f.w - 1 : f.a[y][x] = c

\* C7: upsample_flow returns fields of the target shape in which the resampled
\* u is multiplied by target_width/coarse_width and the resampled v by
\* target_height/coarse_height: a constant field (u0, v0) comes back as the
\* constant field (u0*tw/cw, v0*th/ch), which is (2*u0, 2*v0) from (h, w) to
\* (2h, 2w), and the first and last samples of any field come back scaled.
C7_UpsampleScales ==
    pc = "done" /\ flow_u_up # None =>
        LET th == target_shape[1]
            tw == target_shape[2]
            ch == flow_u.h
            cw == flow_u.w
        IN  /\ flow_u_up.h = th /\ flow_u_up.w = tw
            /\ flow_v_up.h = th /\ flow_v_up.w = tw
            /\ \A u0 \in HalfFlows :
                 IsConstant(flow_u, u0) => IsConstant(flow_u_up, Frac(u0.n * tw, u0.d * cw))
            /\ \A v0 \in {flow_v.a[0][0]} :
                 IsConstant(flow_v, v0) => IsConstant(flow_v_up, Frac(v0.n * th, v0.d * ch))
            /\ (th = 2 * ch /\ tw = 2 * cw) =>
                 \A u0 \in {flow_u.a[0][0]}, v0 \in {flow_v.a[0][0]} :
                    (IsConstant(flow_u, u0) /\ IsConstant(flow_v, v0)) =>
                        /\ IsConstant(flow_u_up, Frac(2 * u0.n, u0.d))
                        /\ IsConstant(flow_v_up, Frac(2 * v0.n, v0.d))
            /\ flow_u_up.a[0][0] = RMul(flow_u.a[0][0], Frac(tw, cw))
            /\ flow_v_up.a[0][0] = RMul(flow_v.a[0][0], Frac(th, ch))
            /\ (th > 1 /\ tw > 1) =>
                 /\ flow_u_up.a[th - 1][tw - 1] = RMul(flow_u.a[ch - 1][cw - 1], Frac(tw, cw))
                 /\ flow_v_up.a[th - 1][tw - 1] = RMul(flow_v.a[ch - 1][cw - 1], Frac(th, ch))

\* a constant field with u0 # v0, both nonzero, doubled from (h, w) to (2h, 2w)
C7_Witness ==
    /\ pc = "done"
    /\ flow_u_up # None
    /\ flow_u.h >= 2 /\ flow_u.w >= 2 /\ flow_u.h # flow_u.w
    /\ target_shape = <<2 * flow_u.h, 2 * flow_u.w>>
    /\ IsConstant(flow_u, flow_u.a[0][0])
    /\ IsConstant(flow_v, flow_v.a[0][0])
    /\ flow_u.a[0][0].n # 0
    /\ flow_v.a[0][0].n # 0
    /\ flow_u.a[0][0] # flow_v.a[0][0]
    /\ IsConstant(flow_u_up, Frac(2 * flow_u.a[0][0].n, flow_u.a[0][0].d))

InsideImage(img, y, x) == y \in 0 .. img.h - 1 /\ x \in 0 .. img.w - 1

\* C8: warp_image returns an image of the input's shape whose sample (x, y) is
\* the input sampled at (x + u(x,y), y + v(x,y)): for an integer flow it is
\* input[y+v, x+u] when that position is inside the image and the fill value 0
\* otherwise, and halfway between two columns it is the mean of the two.
C8_WarpSamples ==
    pc = "done" /\ img_warped # None =>
        /\ img_warped.h = image.h /\ img_warped.w = image.w
        /\ \A y \in 0 .. image.h - 1, x \in 0 .. image.w - 1 :
             LET fu == flow_u.a[y][x]
                 fv == flow_v.a[y][x]
             IN  /\ (fu.d = 1 /\ fv.d = 1) =>
                       img_warped.a[y][x] =
                          IF InsideImage(image, y + fv.n, x + fu.n)
                          THEN Whole(image.a[y + fv.n][x + fu.n])
                          ELSE Zero
                 /\ (fu.d = 2 /\ fv.d = 1) =>
                       LET x0 == x + (fu.n - 1) \div 2
                       IN  img_warped.a[y][x] =
                              IF InsideImage(image, y + fv.n, x0)
                                 /\ InsideImage(image, y + fv.n, x0 + 1)
                              THEN Frac(image.a[y + fv.n][x0] + image.a[y + fv.n][x0 + 1], 2)
                              ELSE Zero

\* an integer flow with u # v that moves one sample inside the image onto a
\* different value and takes another sample from outside the image
C8_Witness ==
    /\ pc = "done"
    /\ img_warped # None
    /\ \E y \in 0 .. image.h - 1, x \in 0 .. image.w - 1 :
          /\ flow_u.a[y][x].d = 1 /\ flow_v.a[y][x].d = 1
          /\ flow_u.a[y][x].n # 0 /\ flow_v.a[y][x].n # 0
          /\ flow_u.a[y][x] # flow_v.a[y][x]
          /\ InsideImage(image, y + flow_v.a[y][x].n, x + flow_u.a[y][x].n)
          /\ img_warped.a[y][x] = Whole(image.a[y + flow_v.a[y][x].n][x + flow_u.a[y][x].n])
          /\ img_warped.a[y][x] # Whole(image.a[y][x])
          /\ img_warped.a[y][x] # Zero
    /\ \E y \in 0 .. image.h - 1, x \in 0 .. image.w - 1 :
          /\ flow_u.a[y][x].d = 1 /\ flow_v.a[y][x].d = 1
          /\ ~InsideImage(image, y + flow_v.a[y][x].n, x + flow_u.a[y][x].n)
          /\ image.a[y][x] # 0
          /\ img_warped.a[y][x] = Zero

(***************************************************************************)
(* Claims about the coarse-to-fine loop.                                   *)
(***************************************************************************)
Events(kind) == {k \in 1 .. Len(log) : log[k][1] = kind}
Count(ev) == Cardinality({k \in 1 .. Len(log) : log[k] = ev})
LevelsEntered == [k \in 1 .. Cardinality(Events("level")) |->
                    log[CHOOSE j \in Events("level") :
                          Cardinality({i \in Events("level") : i <= j}) = k][2]]

\* C4: a run with num_levels >= 1 and num_iterations >= 1 enters the levels
\* 0, 1, ..., num_levels-1 in this order, each once, a convergence exit is
\* followed by the rest of its own level and then the next level, and the run
\* ends in DONE with all levels entered, not in an exception.
C4_LevelsThenDone ==
    (num_levels >= 1 /\ num_iterations >= 1) =>
        /\ LevelsEntered = [k \in 1 .. Len(LevelsEntered) |-> k - 1]
        /\ Len(LevelsEntered) <= num_levels
        /\ \A k \in Events("break") :
              /\ k < Len(log) => log[k + 1] = <<"visualize", log[k][2]>>
              /\ k + 1 < Len(log) => log[k + 2][1] = "level" /\ log[k + 2][2] = log[k][2] + 1
        /\ pc = "done" => Len(LevelsEntered) = num_levels
        /\ pc # "raised"

\* C5: the iteration loop is left early after an iteration only when both
\* mean(|du|) < 0.01 and mean(|dv|) < 0.01 hold for its residual, it is left
\* whenever both hold, and otherwise (one or neither below 0.01) it goes on
\* until num_iterations iterations have run.
C5_EarlyExit ==
    LET below_du == BelowThreshold(np_mean_abs(du))
        below_dv == BelowThreshold(np_mean_abs(dv))
        broke == Len(log) > 0 /\ log[Len(log)][1] = "break"
        warps == Cardinality({k \in Events("warp") : log[k][2] = level})
    IN  /\ (pc = "visualize" /\ broke) =>
              /\ TRUE \in below_du /\ TRUE \in below_dv
              /\ warps = iteration + 1
              /\ warps <= num_iterations
        /\ (pc = "iter_loop" /\ iteration > 0) =>
              /\ FALSE \in below_du \/ FALSE \in below_dv
              /\ warps = iteration
        /\ (pc = "visualize" /\ ~broke) =>
              /\ iteration = num_iterations
              /\ warps = num_iterations

\* a level left by convergence, and at the next level an iteration whose du
\* mean is below 0.01 while its dv mean is not, after which the loop goes on
C5_Witness ==
    /\ pc = "iter_loop"
    /\ iteration > 0
    /\ iteration < num_iterations
    /\ BelowThreshold(np_mean_abs(du)) = {TRUE}
    /\ BelowThreshold(np_mean_abs(dv)) = {FALSE}
    /\ Count(<<"break", 0, 0>>) = 1

\* C6: the flow starts as zeros of the shape of pyramid level 0; entering a
\* level i > 0 calls upsample_flow once, right at the head of the level and so
\* before its first warp, after which the flow has level i's shape; there is no
\* upsampling at level 0 and none between the iterations of a level.
C6_UpsampleOnEntry ==
    /\ (pc = "level_loop" /\ level = 0) =>
          /\ flow_u = np_zeros(pyr_prev[1].h, pyr_prev[1].w)
          /\ flow_v = np_zeros(pyr_prev[1].h, pyr_prev[1].w)
    /\ \A k \in Events("upsample") :
          /\ log[k][2] > 0
          /\ log[k - 1] = <<"level", log[k][2]>>
    /\ \A k \in Events("level") :
          log[k][2] > 0 => Count(<<"upsample", log[k][2]>>) = 1
    /\ \A k \in Events("warp") :
          /\ \E j \in Events("level") : j < k /\ log[j][2] = log[k][2]
          /\ log[k][2] > 0 =>
                \E j \in Events("upsample") : j < k /\ log[j][2] = log[k][2]
    /\ pc \in {"iter_loop", "visualize"} =>
          /\ flow_u.h = pyr_prev[level + 1].h /\ flow_u.w = pyr_prev[level + 1].w
          /\ flow_v.h = pyr_prev[level + 1].h /\ flow_v.w = pyr_prev[level + 1].w

\* the second iteration at level 1 has run on a flow that was not zero when it
\* was upsampled, with a single upsampling in the whole run
C6_Witness ==
    /\ pc = "iter_loop"
    /\ level = 1
    /\ iteration = 2
    /\ Count(<<"upsample", 1>>) = 1
    /\ Cardinality(Events("upsample")) = 1
    /\ flow_u.h = 2 * pyr_prev[1].h
    /\ \E y \in 0 .. flow_u.h - 1, x \in 0 .. flow_u.w - 1 : flow_u.a[y][x].n # 0
    /\ Count(<<"warp", 0, 0>>) = 1

(***************************************************************************)
(* Claims about the shapes and the zero border of the refined flow.        *)
(***************************************************************************)
InInterior(f, win, y, x) ==
    /\ y >= win \div 2 /\ y < f.h - win \div 2
    /\ x >= win \div 2 /\ x < f.w - win \div 2

ZeroBorder(f, win) ==
    \A y \in 0 .. f.h - 1, x \in 0 .. f.w - 1 :
        ~InInterior(f, win, y, x) => f.a[y][x] = Zero

\* C11: in lucas_kanade_pyramidal the flow is zero at every pixel within
\* window_size//2 of an edge of its level, after the zero start, after every
\* upsampling, after every accumulation and when it is returned.
C11_FlowZeroOnBorder ==
    pc \in {"level_loop", "iter_loop", "visualize", "done"} =>
        /\ ZeroBorder(flow_u, window_size)
        /\ ZeroBorder(flow_v, window_size)

\* at level 1, after the upsampling of a flow that was not zero and an
\* accumulation, the pixel next to the corner pixel holds a non-zero flow
C11_Witness ==
    /\ pc = "iter_loop"
    /\ level = 1
    /\ iteration = 1
    /\ window_size \div 2 = 1
    /\ flow_u.h > 2 /\ flow_u.w > 2
    /\ flow_v.a[1][1] # Zero
    /\ \E k \in Events("warp") : log[k][2] = 0 /\ k < Len(log)
    /\ ZeroBorder(flow_v, window_size)
    /\ ~ZeroBorder(flow_v, window_size + 2)

SameShape(a, b) == a.h = b.h /\ a.w = b.w

\* C12: for frames of one shape, the two pyramids agree level by level, at
\* every level the flow has the level's shape, as have the warped image and the
\* residual once an iteration has run, and the flow returned at DONE has the
\* shape of the input frames.
C12_LevelShapes ==
    (SameShape(frame_prev, frame_curr) /\ pc # "start") =>
        /\ Len(pyr_prev) = Len(pyr_curr)
        /\ \A i \in 1 .. Len(pyr_prev) : SameShape(pyr_prev[i], pyr_curr[i])
        /\ pc \in {"iter_loop", "visualize"} =>
              /\ SameShape(flow_u, pyr_prev[level + 1])
              /\ SameShape(flow_v, pyr_prev[level + 1])
              /\ (\E k \in Events("warp") : log[k][2] = level) =>
                    /\ SameShape(img_warped, pyr_prev[level + 1])
                    /\ SameShape(du, pyr_prev[level + 1])
                    /\ SameShape(dv, pyr_prev[level + 1])
        /\ pc = "done" =>
              /\ SameShape(flow_u, frame_prev)
              /\ SameShape(flow_v, frame_prev)

\* a two-level run on frames of one shape has iterated at both levels and
\* returned a flow of the frames' shape, larger than that of level 0
C12_Witness ==
    /\ pc = "done"
    /\ SameShape(frame_prev, frame_curr)
    /\ num_levels = 2
    /\ \E k \in Events("warp") : log[k][2] = 0
    /\ \E k \in Events("warp") : log[k][2] = 1
    /\ pyr_prev[1].h >= 1
    /\ pyr_prev[1].h < frame_prev.h
    /\ SameShape(du, frame_prev)
    /\ SameShape(flow_u, frame_prev)

\* C13: every failure of lucas_kanade_pyramidal is raised before level 0 is
\* entered: a run that has entered a level (or any later step) is never in an
\* exception, and so goes on to DONE.
C13_FailuresBeforeLoop == pc = "raised" => Len(log) = 0

\* C14: a call with an even window_size, with num_levels = 0 or with a
\* scale_factor outside (0, 1) is rejected: the solver returns no flow for an
\* even window, the pyramid builder returns no pyramid for num_levels = 0 or a
\* scale factor outside (0, 1), and the estimator returns no flow for either.
C14_InvalidRejected ==
    /\ (pc = "done" /\ Ix # None /\ u # None) => window_size % 2 = 1
    /\ (pc = "done" /\ image # None) =>
          num_levels >= 1 /\ 0 < scale_factor[1] /\ scale_factor[1] < scale_factor[2]
    /\ (pc = "done" /\ pyr_prev # <<>>) => window_size % 2 = 1 /\ num_levels >= 1

\* C15: a call whose array arguments disagree in shape fails with a
\* shape-mismatch error and produces no output: a flow returned by
\* lucas_kanade_from_gradients was computed from three gradients of one shape.
C15_MismatchRejected ==
    (pc = "done" /\ Ix # None /\ u # None) => SameShape(Ix, Iy) /\ SameShape(Ix, It)

\* C16: lucas_kanade_pyramidal performs no file I/O and changes no state
\* outside its own computation: no file is ever written during a run.
C16_NoFileIO == files = {}

(***************************************************************************)
(* Claims about the accuracy metrics.                                      *)
(***************************************************************************)
Masked == {i \in 1 .. Len(mask) : mask[i]}

\* the prediction equals the ground truth at every pixel of the mask
PerfectInMask == \A i \in Masked : u_pred[i] = u_true /\ v_pred[i] = v_true

\* C17: when the prediction equals the ground truth at every pixel of the mask,
\* mean_absolute_error returns (0, 0) and root_mean_square_error, endpoint_error
\* and angular_error return 0, whatever the prediction is outside the mask.
C17_PerfectIsZero ==
    (pc = "done" /\ Masked # {} /\ PerfectInMask) =>
        /\ metrics.mae_u = FZero /\ metrics.mae_v = FZero
        /\ metrics.rmse = FZero
        /\ metrics.epe = FZero
        /\ AngleIsZero(metrics.aae)

\* the magnitude of the prediction at pixel i, as angular_error computes it
mag_pred(i) == magnitude(u_pred[i], v_pred[i])

\* C18: angular_error returns 0.0 by its shortcut, computing no angle, when
\* the ground-truth magnitude is below 1e-6 and so is the predicted magnitude
\* at every pixel of the mask; one pixel of the mask with a magnitude of 1e-6
\* or more, or such a ground truth, disables the shortcut.
C18_NearZeroShortcut ==
    (pc = "done" /\ Len(mask) > 0) =>
        /\ metrics.aae.shortcut <=>
              /\ fless(magnitude(u_true, v_true), MagThreshold)
              /\ \A i \in Masked : fless(mag_pred(i), MagThreshold)
        /\ metrics.aae.shortcut => metrics.aae.dot_product = <<>>
        /\ ~metrics.aae.shortcut => Len(metrics.aae.dot_product) = Cardinality(Masked)

\* the shortcut taken past a pixel outside the mask that is not near zero, and
\* with a component of the prediction that is not zero
C18_Witness ==
    /\ pc = "done"
    /\ metrics.aae.shortcut
    /\ \E i \in Masked : u_pred[i] # FZero
    /\ \E i \in 1 .. Len(mask) : ~mask[i] /\ ~fless(mag_pred(i), MagThreshold)

\* the shortcut disabled by one pixel of the mask whose components are both
\* below 1e-6 while its magnitude is not, beside a pixel that is near zero
C18_DisabledWitness ==
    /\ pc = "done"
    /\ ~metrics.aae.shortcut
    /\ fless(magnitude(u_true, v_true), MagThreshold)
    /\ Cardinality(Masked) = 2
    /\ \E i \in Masked : fless(mag_pred(i), MagThreshold)
    /\ \E i \in Masked :
          /\ fless(u_pred[i], MagThreshold) /\ fless(v_pred[i], MagThreshold)
          /\ ~fless(mag_pred(i), MagThreshold)

(***************************************************************************)
(* Claims about the accuracy of the estimators.                            *)
(***************************************************************************)
\* the pixels whose window holds no gradient sample taken at a frame edge
InteriorPixels ==
    {p \in (0 .. u.h - 1) \X (0 .. u.w - 1) :
        /\ p[1] >= window_size \div 2 + 1 /\ p[1] <= u.h - window_size \div 2 - 2
        /\ p[2] >= window_size \div 2 + 1 /\ p[2] <= u.w - window_size \div 2 - 2}

\* every interior window has a determinant above the solver's threshold
WellTextured ==
    /\ InteriorPixels # {}
    /\ \A p \in InteriorPixels : ~NearSingular(Det(p[1], p[2]), Ix.den)

\* the mean of the field f over the interior pixels is within 0.2 of target
MeanWithin(f, target) ==
    LET total == RSum([p \in InteriorPixels |-> f.a[p[1]][p[2]]], InteriorPixels)
        n == Cardinality(InteriorPixels)
    IN  5 * Abs(total.n - n * target * total.d) <= n * total.d

\* C19: when frame_curr is a textured pattern of frame_prev moved by whole
\* pixels (dx, dy) with |dx|, |dy| <= window_size, the flow
\* lucas_kanade_single_scale returns has, over the interior pixels, mean(u)
\* within 0.2 of dx and mean(v) within 0.2 of dy.
C19_TranslationRecovered ==
    pc = "done" =>
        \A d \in Translations :
            ( /\ frame_prev = Translated(frame_prev.h, frame_prev.w, <<0, 0>>)
              /\ frame_curr = Translated(frame_prev.h, frame_prev.w, d)
              /\ WellTextured ) =>
                MeanWithin(u, d[2]) /\ MeanWithin(v, d[1])

\* the interior pixels of an h x w field for a window size
InteriorOf(h, w, win) ==
    {p \in (0 .. h - 1) \X (0 .. w - 1) :
        /\ p[1] >= win \div 2 + 1 /\ p[1] <= h - win \div 2 - 2
        /\ p[2] >= win \div 2 + 1 /\ p[2] <= w - win \div 2 - 2}

RAbs(q) == [n |-> Abs(q.n), d |-> q.d]

\* the sum over the mask of |fu - tu| + |fv - tv|: the two components of
\* mean_absolute_error added up, times the size of the mask
AbsErrorSum(fu, fv, tu, tv, msk) ==
    RSum([p \in msk |-> RAdd(RAbs(RAdd(fu.a[p[1]][p[2]], Whole(-tu))),
                             RAbs(RAdd(fv.a[p[1]][p[2]], Whole(-tv))))], msk)

\* frame_curr is the smooth pattern of frame_prev moved by more than window_size
LargeTranslation ==
    /\ frame_prev = Smooth(frame_prev.h, frame_prev.w, 0)
    /\ frame_curr = Smooth(frame_prev.h, frame_prev.w, MaxWindow)
    /\ MaxWindow > window_size
    /\ InteriorOf(frame_prev.h, frame_prev.w, window_size) # {}

\* the error of the flow lucas_kanade_pyramidal returned, over the interior
ErrorPyramidal ==
    AbsErrorSum(flow_u, flow_v, -MaxWindow, 0,
                InteriorOf(frame_prev.h, frame_prev.w, window_size))

\* the error of lucas_kanade_single_scale on the same frames and mask
ErrorSingleScale ==
    LET r == lucas_kanade_single_scale(frame_prev, frame_curr, window_size)
    IN  AbsErrorSum(r[4], r[5], -MaxWindow, 0,
                    InteriorOf(frame_prev.h, frame_prev.w, window_size))

HasLine(kind) == \E i \in 1 .. Len(flow_file) : flow_file[i].kind = kind
ConsumerReturned == pc \in {"done", "raised"} /\ consumer # "none"

\* C21: a flow-field file whose comment header carries no test-region line,
\* with or without the image-size line, is accepted by every consumer: the
\* call returns without an exception.  (Files of two data rows or more: a
\* file of fewer rows is not a flow field that any consumer can index.)
C21_HeaderWithoutRegionAccepted ==
    (ConsumerReturned /\ ~HasLine("region") /\ Len(np_loadtxt(flow_file)) >= 2)
        => raised = "none"

(***************************************************************************)
(* Claims about the hex interchange form.                                  *)
(***************************************************************************)
LowerHex == {HexDigits[k] : k \in 1 .. 16}
\* the number a line of two hexadecimal digits stands for
HexValue(line) ==
    16 * ((CHOOSE k \in 1 .. 16 : HexDigits[k] = line[1]) - 1)
       + ((CHOOSE k \in 1 .. 16 : HexDigits[k] = line[2]) - 1)

\* C22: save_as_mem_file writes height*width lines, each two lowercase hex
\* digits, line y*width + x standing for pixel (y, x); mem_to_image read with
\* the frame's width and height returns the frame's pixels; and mem_to_image
\* raises ValueError exactly when the file holds a number of values other
\* than width*height.
C22_HexRoundTrip ==
    /\ pc \in {"saved", "done", "raised"} =>
          /\ Len(mem_file) = frame.h * frame.w
          /\ \A y \in 0 .. frame.h - 1, x \in 0 .. frame.w - 1 :
                LET line == mem_file[y * frame.w + x + 1]
                IN  /\ Len(line) = 2
                    /\ line[1] \in LowerHex
                    /\ line[2] \in LowerHex
                    /\ HexValue(line) = frame.a[y][x]
    /\ (pc = "done" /\ read_shape = <<frame.w, frame.h>>) => img_array = frame
    /\ pc \in {"done", "raised"} =>
          /\ (raised = "ValueError") = (frame.h * frame.w # read_shape[1] * read_shape[2])
          /\ (pc = "done") = (raised = "none")

\* a frame of two rows and two columns with pixels of both digit kinds, read
\* back with its own shape
C22_Witness ==
    /\ pc = "done"
    /\ frame.h = 2
    /\ frame.w = 2
    /\ read_shape = <<2, 2>>
    /\ frame.a[0][1] # frame.a[1][0]
    /\ \E y \in 0 .. 1, x \in 0 .. 1 : frame.a[y][x] >= 160
    /\ \E y \in 0 .. 1, x \in 0 .. 1 : frame.a[y][x] < 16
    /\ img_array = frame

\* a file of fewer values than the shape asked for
C22_RaisedWitness ==
    /\ pc = "raised"
    /\ raised = "ValueError"
    /\ Len(mem_file) < read_shape[1] * read_shape[2]

(***************************************************************************)
(* Claims about the verifier.                                              *)
(***************************************************************************)
\* the thresholds the claim names: those of the category that lists the
\* pattern, those of "translation" when none does
ListedIn(c) ==
    \E i \in 1 .. Len(config.pattern_categories) :
        /\ config.pattern_categories[i].category = c
        /\ pattern_type \in config.pattern_categories[i].patterns
ThresholdCategory ==
    IF \E c \in {"translation", "rotation"} : ListedIn(c)
    THEN CHOOSE c \in {"translation", "rotation"} : ListedIn(c)
    ELSE "translation"
\* the larger of the two errors; nan when they are
WorstMae == IF mae_u >= mae_v THEN mae_u ELSE mae_v
Rank(s) == IF s = "Pass" THEN 0 ELSE IF s = "Warning" THEN 1 ELSE 2

\* C23: classify_result is "Pass" exactly when the larger error is at most
\* mae_pass, "Warning" exactly when it is above mae_pass and at most
\* mae_warning, "Fail" otherwise, with the thresholds of the pattern's category
\* (translation for an unlisted pattern); and a larger worst error never gets
\* a better status.
C23_Classification ==
    pc = "done" =>
        LET th == config.thresholds[ThresholdCategory]
            finite == WorstMae # py_nan
        IN  /\ (status = "Pass") = (finite /\ WorstMae <= th.mae_pass)
            /\ (status = "Warning") =
                  (finite /\ th.mae_pass < WorstMae /\ WorstMae <= th.mae_warning)
            /\ status \in {"Pass", "Warning", "Fail"}
            /\ \A a \in MaePairs, b \in MaePairs :
                  (a[1] # py_nan /\ b[1] # py_nan
                     /\ py_max(a[1], a[2]) <= py_max(b[1], b[2])) =>
                  Rank(classify_result(a[1], a[2], pattern_type, config))
                     <= Rank(classify_result(b[1], b[2], pattern_type, config))

\* the larger error exactly on mae_pass, for a pattern of the second category
\* whose thresholds are not those of the first
C23_Witness ==
    /\ pc = "done"
    /\ pattern_type = "rotate_small"
    /\ config.thresholds.rotation.mae_pass # config.thresholds.translation.mae_pass
    /\ mae_v = config.thresholds.rotation.mae_pass
    /\ mae_u < mae_v
    /\ status = "Pass"

\* an unlisted pattern between the translation thresholds
C23_WarningWitness ==
    /\ pc = "done"
    /\ pattern_type = "unlisted"
    /\ status = "Warning"
    /\ config.thresholds.rotation # config.thresholds.translation

\* the claim's test for one metric, on the values the dictionaries hold (0 for
\* a missing name); a comparison with nan is false
Flagged(metric) ==
    LET c == dict_get(current_metrics, metric)
        b == dict_get(baseline_metrics, metric)
    IN  /\ c # py_nan
        /\ b # py_nan
        /\ \/ b >= Epsilon /\ Abs(100 * (c - b)) > threshold_percent * b
           \/ b < Epsilon /\ c > Epsilon
WithOthers(d, r, a) ==
    [k \in DOMAIN d \cup {"rmse", "aae"} |->
        IF k = "rmse" THEN r ELSE IF k = "aae" THEN a ELSE d[k]]

\* C24: compare_metrics passes exactly when none of mae_u, mae_v, epe is
\* flagged; a metric is flagged iff its baseline is at least 1e-6 and the
\* relative change exceeds threshold_percent in either direction, or its
\* baseline is below 1e-6 and its current value above 1e-6; rmse and aae do
\* not influence the result.
C24_CompareMetrics ==
    pc = "done" =>
        /\ comparison.passed = (\A k \in {"mae_u", "mae_v", "epe"} : ~Flagged(k))
        /\ \A k \in {"mae_u", "mae_v", "epe"} :
              Flagged(k) = (\E i \in 1 .. Len(comparison.flags) : comparison.flags[i] = k)
        /\ \A r \in OtherValues \cup {0}, a \in OtherValues \cup {0} :
              /\ compare_metrics(WithOthers(current_metrics, r, a), baseline_metrics,
                                 threshold_percent) = comparison
              /\ compare_metrics(current_metrics, WithOthers(baseline_metrics, r, a),
                                 threshold_percent) = comparison

\* a decrease of more than the threshold in one metric alone, the others
\* unchanged, with rmse and aae three times their baseline
C24_Witness ==
    /\ pc = "done"
    /\ threshold_percent > 0
    /\ baseline_metrics = MetricDict(100, 100, 100, 100, 100)
    /\ current_metrics = MetricDict(100, 100 - MaxChange, 100, 300, 300)
    /\ comparison.flags = <<"mae_v">>
    /\ ~comparison.passed

\* a baseline of zero against a current value above 1e-6
C24_ZeroBaselineWitness ==
    /\ pc = "done"
    /\ dict_get(baseline_metrics, "epe") = 0
    /\ dict_get(current_metrics, "epe") = 2
    /\ comparison.flags = <<"epe">>

(***************************************************************************)
(* Claims that compare two implementations.                                *)
(***************************************************************************)
\* C25: for every frame pair and window size, compute_gradients followed by
\* lucas_kanade_window of lucas_kanade_reference.py returns the same (u, v) as
\* lucas_kanade_single_scale of the core, border margin and determinant test
\* included.
C25_ReferenceEqualsCore ==
    pc = "done" /\ u_ref # None => u_ref = u /\ v_ref = v

\* both have run on a pair that has solved pixels with a flow other than zero
\* and pixels left at zero by the determinant test
C25_Witness ==
    /\ pc = "done"
    /\ u_ref # None
    /\ u_ref = u
    /\ v_ref = v
    /\ window_size = 3
    /\ \E y \in 1 .. u.h - 2, x \in 1 .. u.w - 2 : u.a[y][x] # Zero
    /\ \E y \in 1 .. u.h - 2, x \in 1 .. u.w - 2 : u.a[y][x] = Zero /\ v.a[y][x] = Zero

\* C26: with num_levels = 1 and num_iterations = 1 lucas_kanade_pyramidal
\* returns the flow lucas_kanade_single_scale returns for the same pair of
\* frames (of one shape) and the same window_size.
C26_OneLevelIsSingleScale ==
    (/\ pc = "done"
     /\ pyr_prev # <<>>
     /\ num_levels = 1
     /\ num_iterations = 1
     /\ SameShape(frame_prev, frame_curr)) =>
        LET r == lucas_kanade_single_scale(frame_prev, frame_curr, window_size)
        IN  /\ flow_u = [h |-> r[4].h, w |-> r[4].w, a |-> r[4].a]
            /\ flow_v = [h |-> r[5].h, w |-> r[5].w, a |-> r[5].a]

\* a one-level, one-iteration run that returned a flow other than zero
C26_Witness ==
    /\ pc = "done"
    /\ num_levels = 1
    /\ num_iterations = 1
    /\ SameShape(frame_prev, frame_curr)
    /\ Len(pyr_prev) = 1
    /\ pyr_curr[1] = frame_curr
    /\ img_warped = frame_curr
    /\ \E y \in 0 .. flow_u.h - 1, x \in 0 .. flow_u.w - 1 : flow_u.a[y][x] # Zero
    /\ flow_u = [h |-> du.h, w |-> du.w, a |-> du.a]
    /\ Cardinality(Events("warp")) = 1

(***************************************************************************)
(* Claims about the iteration loop.                                        *)
(***************************************************************************)
\* the passes of the iteration loop begun at level lvl
IterationsAt(lvl) == {k \in Events("warp") : log[k][2] = lvl}
\* f + g sample by sample
IsSum(s, f, g) ==
    /\ s.h = f.h
    /\ s.w = f.w
    /\ \A y \in 0 .. f.h - 1, x \in 0 .. f.w - 1 :
          s.a[y][x] = RAdd(f.a[y][x], g.a[y][x])
\* a step that runs the body of the iteration loop to its end
IterationStep == pc = "iter_loop" /\ log' # log /\ raised' = "none"
\* the count of passes once a level is left, with num_iterations >= 1
IterationCount ==
    (pc = "visualize" /\ num_iterations >= 1) =>
        /\ Cardinality(IterationsAt(level)) >= 1
        /\ Cardinality(IterationsAt(level)) <= num_iterations

\* C27: at every level, with num_iterations >= 1, the body of the iteration
\* loop runs at least once and at most num_iterations times; every pass that
\* runs, the one that ends in the convergence exit included, leaves the flow
\* equal to the flow before it plus the residual it computed, and no other step
\* between entering and leaving a level changes the flow, so that the flow at
\* the end of a level is the flow on entry plus the level's residuals.
C27_ResidualsAccumulated ==
    /\ []IterationCount
    /\ [][/\ IterationStep => /\ IsSum(flow_u', flow_u, du')
                              /\ IsSum(flow_v', flow_v, dv')
          /\ (pc \in {"iter_loop", "visualize"} /\ ~IterationStep) =>
                 /\ flow_u' = flow_u
                 /\ flow_v' = flow_v]_vars

\* a level left by the convergence exit of its second pass, whose residual is
\* in the flow
C27_Witness ==
    /\ pc = "visualize"
    /\ raised = "none"
    /\ num_iterations >= 2
    /\ Cardinality(IterationsAt(level)) = 2
    /\ Count(<<"break", level, 1>>) = 1
    /\ \E y \in 0 .. du.h - 1, x \in 0 .. du.w - 1 : du.a[y][x] # Zero
    /\ \E y \in 0 .. flow_u.h - 1, x \in 0 .. flow_u.w - 1 : flow_u.a[y][x] # Zero

(***************************************************************************)
(* Claims about the sizes of the pyramid levels.                           *)
(***************************************************************************)
\* every level of the list has at least one row and one column
LevelsKeepPixels(pyr) ==
    \A i \in 1 .. Len(pyr) : pyr[i].h >= 1 /\ pyr[i].w >= 1
\* from index 0 to the last index no dimension decreases
LevelsNeverShrink(pyr) ==
    \A i \in 1 .. Len(pyr) - 1 :
        pyr[i].h <= pyr[i + 1].h /\ pyr[i].w <= pyr[i + 1].w

\* C28: for frames of at least one row and one column and num_levels >= 1,
\* every level build_gaussian_pyramid returns has at least one row and one
\* column, the dimensions never decrease from index 0 to the last index, and
\* upsample_flow never divides by a coarse dimension of zero.
C28_LevelsAtLeastOnePixel ==
    /\ LevelsKeepPixels(pyr_prev)
    /\ LevelsKeepPixels(pyr_curr)
    /\ LevelsNeverShrink(pyr_prev)
    /\ LevelsNeverShrink(pyr_curr)
    /\ raised # "ZeroDivisionError"

(***************************************************************************)
(* Claims about the baseline file.                                         *)
(***************************************************************************)
\* the file holds exactly the run's own results
FileHoldsOwnResults ==
    /\ baseline_file.exists
    /\ "patterns" \in DOMAIN baseline_file.data
    /\ DOMAIN baseline_file.data.patterns =
           {all_results[i].pattern_name : i \in 1 .. Len(all_results)}
    /\ \A i \in 1 .. Len(all_results) :
          json_load_result(baseline_file.data.patterns[all_results[i].pattern_name])
              = all_results[i]
\* a metric of a result flagged against the file's entry for its pattern
RegressionFlagged ==
    /\ baseline_file.exists
    /\ "patterns" \in DOMAIN baseline_file.data
    /\ \E i \in 1 .. Len(all_results), method \in {"single_scale", "pyramidal"},
          metric \in {"mae_u", "mae_v", "epe"} :
          /\ all_results[i].pattern_name \in DOMAIN baseline_file.data.patterns
          /\ LET c == dict_get(all_results[i][method].metrics, metric)
                 b == dict_get(json_load_result(baseline_file.data.patterns[
                                   all_results[i].pattern_name])[method].metrics, metric)
             IN  /\ c # py_nan
                 /\ b # py_nan
                 /\ \/ b >= Epsilon /\ Abs(100 * (c - b)) > args.regression_threshold * b
                    \/ b < Epsilon /\ c > Epsilon
\* the parts that hold for every threshold: the file is rewritten before the
\* comparison reads it; with --compare-baseline alone the file is left as it
\* was and a flagged regression ends the process with status 1
UpdateThenCompare ==
    /\ []((pc = "main_compare" /\ args.update_baseline) => FileHoldsOwnResults)
    /\ [][~args.update_baseline => baseline_file' = baseline_file]_vars
    /\ []((pc = "main_exit" /\ args.compare_baseline /\ ~args.update_baseline) =>
             (exit_status = 1) = RegressionFlagged)

\* C29 as stated: with --update-baseline and --compare-baseline both given the
\* baseline file is rewritten with the run's results before the comparison
\* reads it and the process never exits with status 1; with --compare-baseline
\* alone the file is left unchanged and a flagged regression ends the process
\* with status 1.
C29_UpdateThenCompareNeverFails ==
    /\ UpdateThenCompare
    /\ []((pc = "main_exit" /\ args.update_baseline /\ args.compare_baseline) =>
             exit_status # 1)

\* C29, amended: the same, the process never exiting with status 1 when both
\* flags are given and --regression-threshold is not negative; with a negative
\* threshold it exits with status 1 exactly when a metric of the run's own
\* results is flagged against itself.
C29_UpdateThenCompareNonNegative ==
    /\ UpdateThenCompare
    /\ []((/\ pc = "main_exit"
           /\ args.update_baseline
           /\ args.compare_baseline
           /\ args.regression_threshold >= 0) => exit_status # 1)
    /\ []((/\ pc = "main_exit"
           /\ args.update_baseline
           /\ args.compare_baseline
           /\ args.regression_threshold < 0) => (exit_status = 1) = RegressionFlagged)

\* both flags, threshold zero, a single-scale mae_u above the hundred of every
\* earlier file: the file now holds this run's results and the status is 0
C29_Witness ==
    /\ pc = "main_exit"
    /\ args.update_baseline
    /\ args.compare_baseline
    /\ args.regression_threshold = 0
    /\ Len(all_results) = MaxPatterns
    /\ all_results[1].single_scale.metrics.mae_u = 100 + MaxChange
    /\ FileHoldsOwnResults
    /\ exit_status = 0

\* --compare-baseline alone: a regression against the earlier file, status 1
C29_AloneWitness ==
    /\ pc = "main_exit"
    /\ args.compare_baseline
    /\ ~args.update_baseline
    /\ RegressionFlagged
    /\ ~FileHoldsOwnResults
    /\ exit_status = 1

(***************************************************************************)
(* Claims about the sign of the flow.                                      *)
(***************************************************************************)
\* curr(x, y) = prev(x - dx, y - dy) wherever both pixels lie in the frame,
\* for d = <<dy, dx>>
IsTranslation(prev, curr, d) ==
    /\ prev.h = curr.h
    /\ prev.w = curr.w
    /\ \A y \in 0 .. curr.h - 1, x \in 0 .. curr.w - 1 :
          (y - d[1] \in 0 .. prev.h - 1 /\ x - d[2] \in 0 .. prev.w - 1) =>
              curr.a[y][x] = prev.a[y - d[1]][x - d[2]]
\* the flow is (dx, dy) at every pixel
IsConstantFlow(d) ==
    /\ flow_u = ConstantFlow(frame_prev.h, frame_prev.w, d[2])
    /\ flow_v = ConstantFlow(frame_prev.h, frame_prev.w, d[1])
\* the source (x + dx, y + dy) of the pixel lies inside the frame
SourceInside(y, x, d) ==
    y + d[1] \in 0 .. frame_prev.h - 1 /\ x + d[2] \in 0 .. frame_prev.w - 1
\* the window of the pixel lies inside the frame and inside that region
WindowInside(y, x, d) ==
    \A wy \in y - window_size \div 2 .. y + window_size \div 2,
       wx \in x - window_size \div 2 .. x + window_size \div 2 :
        /\ wy \in 0 .. frame_prev.h - 1
        /\ wx \in 0 .. frame_prev.w - 1
        /\ SourceInside(wy, wx, d)

\* C30: when frame_curr is frame_prev translated by the whole (dx, dy) and the
\* flow is (dx, dy) at every pixel, warp_image(frame_curr, flow) equals
\* frame_prev at every pixel whose source (x + dx, y + dy) lies inside the
\* frame, and the residual computed against frame_prev is zero at every pixel
\* whose window lies inside that region, so that adding it leaves the flow as
\* it is there.
C30_TranslationIsFixedPoint ==
    \A d \in Displacements :
        (IsTranslation(frame_prev, frame_curr, d) /\ IsConstantFlow(d)) =>
            /\ pc \in {"refine_residual", "done"} =>
                  \A y \in 0 .. frame_prev.h - 1, x \in 0 .. frame_prev.w - 1 :
                      SourceInside(y, x, d) =>
                          img_warped.a[y][x] * frame_prev.den
                              = frame_prev.a[y][x] * img_warped.den
            /\ pc = "done" =>
                  \A y \in 0 .. frame_prev.h - 1, x \in 0 .. frame_prev.w - 1 :
                      WindowInside(y, x, d) =>
                          /\ du.a[y][x] = Zero
                          /\ dv.a[y][x] = Zero
                          /\ np_add(flow_u, du).a[y][x] = flow_u.a[y][x]
                          /\ np_add(flow_v, dv).a[y][x] = flow_v.a[y][x]

\* the texture moved by one pixel along both axes, the flow equal to that
\* move, a pixel with its window inside the region and textured enough for the
\* equations to be solved there: the residual is zero, while the frames differ
C30_Witness ==
    /\ pc = "done"
    /\ IsTranslation(frame_prev, frame_curr, <<1, -1>>)
    /\ IsConstantFlow(<<1, -1>>)
    /\ frame_curr # frame_prev
    /\ img_warped # frame_curr
    /\ \E y \in 0 .. frame_prev.h - 1, x \in 0 .. frame_prev.w - 1 :
          /\ WindowInside(y, x, <<1, -1>>)
          /\ lucas_kanade_single_scale(frame_prev, frame_curr, window_size)[4].a[y][x] # Zero
          /\ du.a[y][x] = Zero
          /\ dv.a[y][x] = Zero

=============================================================================
